---- MODULE Spec2Model ----
(***************************************************************************)
(* Ghostline container privacy/policy engine: uniformity profiles,         *)
(* entropy budget, permission grant lifecycle, extension store and          *)
(* per-container extension gating, and the dashboard that composes them.    *)
(* Python dicts are functions whose DOMAIN is the set of keys; where the    *)
(* code iterates a dict, the dict is a sequence in insertion order.         *)
(***************************************************************************)
EXTENDS Integers, Sequences, FiniteSets, TLC

VARIABLES
    \* ghostline/privacy/uniformity.py
    base_fonts,           \* the one FontPack object all three presets share
    container_profiles,   \* UniformityManager.container_profiles
    \* ghostline/permissions/manager.py
    compliance_mode,      \* PermissionPolicyEngine.compliance_mode
    audit_events,         \* PermissionPolicyEngine.audit_events
    grants,               \* PermissionManager.grants, in insertion order
    exposure_log,         \* PermissionManager.exposure_log
    \* ghostline/extensions/platform.py
    review_notes,         \* ExtensionPackage.review_notes of each package object
    extensions,           \* ExtensionStore.extensions
    analysis_findings,    \* ExtensionStore.analysis_findings
    policies,             \* ExtensionManager.policies
    policy_object,        \* which ExtensionPolicy object each key of policies holds
    active_extensions,    \* ExtensionManager.active_extensions
    \* ghostline/privacy/entropy.py
    usage,                \* EntropyBudget.usage
    devtools_events,      \* EntropyBudget.devtools_events
    telemetry_events,     \* EntropyBudget.telemetry_events
    randomized,           \* DeviceRandomizer.randomized
    \* ghostline/ui/dashboard.py
    container_origins,    \* PrivacyDashboard._container_origins
    last_device_class,    \* PrivacyDashboard._last_device_class
    hash_value,           \* hash(str) of this process, for each origin string
    \* ghostline/ui/containers.py
    badges,               \* ContainerUX.badges
    palette_index,        \* ContainerUX._palette_index
    \* ghostline/extensions/platform.py, ExtensionSandboxMonitor
    budgets,              \* ExtensionSandboxMonitor.budgets
    sandbox_usage,        \* ExtensionSandboxMonitor.usage
    alerts,               \* ExtensionSandboxMonitor.alerts
    \* ghostline/ui/dashboard.py, container bookkeeping
    container_templates,  \* PrivacyDashboard._container_templates
    container_locales,    \* PrivacyDashboard._container_locales
    \* ghostline/networking/tor.py, the CI orchestrator's TorController
    tor_enabled,          \* TorController.enabled
    progress_index,       \* TorController.progress_index
    active_transport,     \* TorController.active_transport
    circuits,             \* TorController.circuits
    guard_cursor,         \* how many guards the cycle guard_nodes has handed out, mod 3
    \* ghostline/devops/reliability.py, RolloutController
    flags,                \* RolloutController.flags
    kill_switches,        \* RolloutController.kill_switches
    canary_cohorts,       \* RolloutController.canary_cohorts
    \* callers of the hosting application that run at the same time
    frames,               \* each such caller's position and local variables
    \* the value returned, or the error raised, by the last call
    ret

uniVars   == <<base_fonts, container_profiles>>
permVars  == <<compliance_mode, audit_events, grants, exposure_log>>
storeVars == <<review_notes, extensions, analysis_findings>>
mgrVars   == <<policies, policy_object, active_extensions>>
entVars   == <<usage, devtools_events, telemetry_events>>
dashVars  == <<randomized, container_origins, last_device_class, hash_value>>
uxVars    == <<badges, palette_index>>
boxVars   == <<budgets, sandbox_usage, alerts>>
tplVars   == <<container_templates, container_locales>>
torVars   == <<tor_enabled, progress_index, active_transport, circuits,
               guard_cursor>>
rollVars  == <<flags, kill_switches, canary_cohorts>>
vars == <<uniVars, permVars, storeVars, mgrVars, entVars, dashVars, uxVars,
          boxVars, tplVars, torVars, rollVars, frames, ret>>

\* A dict with no keys.
EmptyDict == <<>>

\* What a call on one component leaves alone: every other component.
OnlyPermissions ==
    UNCHANGED <<uniVars, storeVars, mgrVars, entVars, dashVars, uxVars, boxVars,
               tplVars, torVars, rollVars, frames>>

OnlyUniformity ==
    UNCHANGED <<permVars, storeVars, mgrVars, entVars, dashVars, uxVars, boxVars,
               tplVars, torVars, rollVars, frames>>

OnlyStore ==
    UNCHANGED <<uniVars, permVars, mgrVars, entVars, dashVars, uxVars, boxVars,
               tplVars, torVars, rollVars, frames>>

OnlyManager ==
    UNCHANGED <<uniVars, permVars, storeVars, entVars, dashVars, uxVars, boxVars,
               tplVars, torVars, rollVars, frames>>

OnlyEntropy ==
    UNCHANGED <<uniVars, permVars, storeVars, mgrVars, dashVars, uxVars, boxVars,
               tplVars, torVars, rollVars, frames>>

OnlyDashboard ==
    UNCHANGED <<uniVars, permVars, storeVars, mgrVars, uxVars, boxVars,
               tplVars, torVars, rollVars, frames>>

OnlyContainers ==
    UNCHANGED <<uniVars, permVars, storeVars, mgrVars, entVars, dashVars, boxVars,
               tplVars, torVars, rollVars, frames>>

OnlySandbox ==
    UNCHANGED <<uniVars, permVars, storeVars, mgrVars, entVars, dashVars, uxVars,
               tplVars, torVars, rollVars, frames>>

\* What one step of a concurrent caller of the entropy budget leaves alone.
OnlyEntropyStep ==
    UNCHANGED <<uniVars, permVars, storeVars, mgrVars, dashVars, uxVars, boxVars,
               tplVars, torVars, rollVars>>

\* What one step of a concurrent caller of the permission manager leaves
\* alone.
OnlyPermissionsStep ==
    UNCHANGED <<uniVars, storeVars, mgrVars, entVars, dashVars, uxVars, boxVars,
               tplVars, torVars, rollVars>>

\* Two UI event callbacks of the hosting application that run on different
\* threads and call into the same objects.
Callers == {"tab-1", "tab-2"}

\* A caller that is not inside a call.
idle == [pc |-> "idle"]

\* The value of a call that returns None.
Returned(op) == [op |-> op, val |-> "None"]

\* The ValueError a call raises.
Raised(op, code) == [op |-> op, error |-> code]

\* d[key] = value on a dict.
dict_set(d, key, value) == (key :> value) @@ d

(***************************************************************************)
(* Uniformity: FontPack, UniformityProfile, UniformityManager               *)
(***************************************************************************)

Containers == {"alpha", "beta"}
PresetArguments == {"strict", "balanced", "compat", "legacy"}
LocaleArguments == {"en-US", "de-DE"}
Sites == {"example.com", "news.example"}
\* site=None
NoSite == ""
FontLists == {<<"Inter", "Ghostline Sans">>, <<"Comic Sans">>}

HIGH_ENTROPY_APIS == {"webgl", "webgpu", "audiocontext", "gamepad"}

\* base_fonts as _build_presets creates it.
baseline_font_pack ==
    [name |-> "baseline",
     locales |-> ("default" :> <<"Inter", "Noto Sans", "DejaVu Sans">>)
              @@ ("en-US" :> <<"Inter", "Roboto", "Noto Sans">>)
              @@ ("fr-FR" :> <<"Inter", "Noto Sans", "Liberation Sans">>),
     site_overrides |-> EmptyDict]

strict_mask == [api \in HIGH_ENTROPY_APIS |-> FALSE]
balanced_mask == [api \in HIGH_ENTROPY_APIS |-> api # "webgpu"]
compat_mask == [api \in HIGH_ENTROPY_APIS |-> TRUE]

\* UniformityManager.presets: the three profiles hold the same FontPack
\* object, base_fonts.
presets ==
    [strict   |-> [name |-> "strict", capability_mask |-> strict_mask,
                   font_pack |-> base_fonts, strict_mode |-> TRUE],
     balanced |-> [name |-> "balanced", capability_mask |-> balanced_mask,
                   font_pack |-> base_fonts, strict_mode |-> FALSE],
     compat   |-> [name |-> "compat", capability_mask |-> compat_mask,
                   font_pack |-> base_fonts, strict_mode |-> FALSE]]

\* The clone apply_preset builds, with the locale default ensured.
clone_profile(profile, locale) ==
    LET locales == profile.font_pack.locales
        fallback == IF "default" \in DOMAIN locales THEN locales["default"] ELSE <<>>
    IN  [name |-> profile.name,
         capability_mask |-> profile.capability_mask,
         font_pack |-> [name |-> profile.font_pack.name,
                        locales |-> IF locale \in DOMAIN locales THEN locales
                                    ELSE dict_set(locales, locale, fallback),
                        site_overrides |-> profile.font_pack.site_overrides],
         strict_mode |-> profile.strict_mode]

\* UniformityManager.apply_preset
apply_preset(container, preset, locale) ==
    /\ IF preset \notin DOMAIN presets
       THEN /\ ret' = Raised("apply_preset", "unknown-preset:" \o preset)
            /\ UNCHANGED uniVars
       ELSE LET cloned == clone_profile(presets[preset], locale) IN
            /\ container_profiles' = dict_set(container_profiles, container, cloned)
            /\ ret' = [op |-> "apply_preset", val |-> cloned]
            /\ UNCHANGED base_fonts
    /\ OnlyUniformity

\* UniformityManager.profile_for
profile_for(container) ==
    IF container \in DOMAIN container_profiles
    THEN container_profiles[container]
    ELSE presets["compat"]

\* FontPack.fonts_for
pack_fonts_for(font_pack, locale, site) ==
    IF site # NoSite /\ site \in DOMAIN font_pack.site_overrides
    THEN font_pack.site_overrides[site]
    ELSE IF locale \in DOMAIN font_pack.locales THEN font_pack.locales[locale]
    ELSE IF "default" \in DOMAIN font_pack.locales THEN font_pack.locales["default"]
    ELSE <<>>

\* UniformityManager.fonts_for
fonts_for(container, locale, site) ==
    pack_fonts_for(profile_for(container).font_pack, locale, site)

\* The gate with capability_mask.get(api, False).
profile_gate_api_default_deny(profile, api) ==
    IF profile.strict_mode /\ api \in HIGH_ENTROPY_APIS THEN FALSE
    ELSE IF api \in DOMAIN profile.capability_mask THEN profile.capability_mask[api]
    ELSE FALSE
\* UniformityProfile.gate_api
profile_gate_api(profile, api) ==
    IF profile.strict_mode /\ api \in HIGH_ENTROPY_APIS THEN FALSE
    ELSE IF api \in DOMAIN profile.capability_mask THEN profile.capability_mask[api]
    ELSE TRUE

\* UniformityManager.gate_api
gate_api(container, api) == profile_gate_api(profile_for(container), api)

\* UniformityManager.set_site_override: the override is written into the
\* FontPack of the profile profile_for returns, which for a container without
\* a profile is the presets' shared base_fonts.
set_site_override(container, site, fonts) ==
    /\ IF container \in DOMAIN container_profiles
       THEN /\ container_profiles' =
                 [container_profiles EXCEPT
                    ![container].font_pack.site_overrides = dict_set(@, site, fonts)]
            /\ UNCHANGED base_fonts
       ELSE /\ base_fonts' =
                 [base_fonts EXCEPT !.site_overrides = dict_set(@, site, fonts)]
            /\ UNCHANGED container_profiles
    /\ ret' = Returned("set_site_override")
    /\ OnlyUniformity

InitUniformity ==
    /\ base_fonts = baseline_font_pack
    /\ container_profiles = EmptyDict

NextUniformity ==
    \/ \E container \in Containers, preset \in PresetArguments,
           locale \in LocaleArguments :
           apply_preset(container, preset, locale)
    \/ \E container \in Containers, site \in Sites, fonts \in FontLists :
           set_site_override(container, site, fonts)

\* C1 as stated: set_site_override(A, site, fonts) never changes what
\* fonts_for(B, locale, site) returns for another container B.
C1_OverrideIsolation ==
    [][ \A a \in Containers, site \in Sites, fonts \in FontLists :
          set_site_override(a, site, fonts) =>
            \A b \in Containers \ {a}, locale \in LocaleArguments,
               queried \in Sites \cup {NoSite} :
               fonts_for(b, locale, queried)' = fonts_for(b, locale, queried)
      ]_vars

\* C18 as stated: no sequence of apply_preset and set_site_override calls
\* (profile_for, fonts_for and gate_api only read) changes the capability
\* mask, font-pack locales, site overrides or strict_mode of the "strict",
\* "balanced" or "compat" preset.
C18_PresetsImmutable ==
    \A preset \in DOMAIN presets :
       /\ presets[preset].font_pack.locales = baseline_font_pack.locales
       /\ presets[preset].font_pack.site_overrides
            = baseline_font_pack.site_overrides
       /\ presets[preset].capability_mask
            = [strict |-> strict_mask, balanced |-> balanced_mask,
               compat |-> compat_mask][preset]
       /\ presets[preset].strict_mode = (preset = "strict")

(***************************************************************************)
(* Permissions: PermissionPolicyEngine and PermissionManager                *)
(***************************************************************************)

\* Time is counted in units of the default idle_timeout, timedelta(minutes=15).
IdleTimeout == 1
\* The latest time a call's clock reading or its when/now argument takes.
MaxTime == 2
Times == 0 .. MaxTime

\* How many allow() calls, and how many exposure-log entries, a run holds.
MaxAudit == 2
MaxLog == 2

Origins == {"https://a.example", "https://b.example"}
Permissions == {"camera", "clipboard"}
Durations == {"once", "session"}
ComplianceModes == {"standard", "strict", "compliance"}

ONE_TIME_PERMISSIONS == {"camera", "microphone", "geolocation"}

rules ==
    [standard   |-> [deny |-> {}, allow |-> {}],
     strict     |-> [deny |-> {"nativeMessaging", "fileSystem"}, allow |-> {}],
     compliance |-> [deny |-> {"clipboard", "biometrics"}, allow |-> {}]]

\* rule = self.rules.get(self.compliance_mode, self.rules["standard"])
\* allowed = permission not in rule.get("deny", set())
allowed_in_every_mode(mode, permission) == TRUE
allowed_by_policy(mode, permission) ==
    LET rule == IF mode \in DOMAIN rules THEN rules[mode] ELSE rules["standard"]
    IN  permission \notin rule.deny

\* str(allowed) of a Python bool.
str(value) == IF value THEN "True" ELSE "False"

\* The dict that allow() appends to audit_events.
audit_record(origin, permission, mode, allowed) ==
    [origin |-> origin, permission |-> permission,
     mode |-> mode, allowed |-> str(allowed)]

\* An audit log that records only the calls that were allowed.
audited_when_allowed(events, record) ==
    IF record.allowed = "True" THEN Append(events, record) ELSE events
\* self.audit_events.append({...})
audited(events, record) == Append(events, record)

\* Position of origin's inner dict in grants, 0 when the key is absent.
origin_index(gs, origin) ==
    IF \E i \in 1..Len(gs) : gs[i].origin = origin
    THEN CHOOSE i \in 1..Len(gs) : gs[i].origin = origin
    ELSE 0

\* Position of permission's grant in an inner dict, 0 when the key is absent.
permission_index(perms, permission) ==
    IF \E j \in 1..Len(perms) : perms[j].permission = permission
    THEN CHOOSE j \in 1..Len(perms) : perms[j].permission = permission
    ELSE 0

\* self.grants.get(origin, {}).get(permission): a sequence of zero or one grant.
get_grant(gs, origin, permission) ==
    LET i == origin_index(gs, origin) IN
    IF i = 0 THEN <<>>
    ELSE LET j == permission_index(gs[i].perms, permission) IN
         IF j = 0 THEN <<>> ELSE <<gs[i].perms[j]>>

\* self.grants.setdefault(origin, {})[permission] = grant
store_grant(gs, grant) ==
    LET i == origin_index(gs, grant.origin) IN
    IF i = 0
    THEN Append(gs, [origin |-> grant.origin, perms |-> <<grant>>])
    ELSE LET j == permission_index(gs[i].perms, grant.permission) IN
         IF j = 0
         THEN [gs EXCEPT ![i].perms = Append(@, grant)]
         ELSE [gs EXCEPT ![i].perms[j] = grant]

\* The flag without the fixed set of one-time permissions.
one_time_flag_from_prompt(one_time, permission, duration) ==
    one_time \/ duration = "once"
\* one_time or permission in ONE_TIME_PERMISSIONS or prompt.duration == "once"
one_time_flag(one_time, permission, duration) ==
    one_time \/ permission \in ONE_TIME_PERMISSIONS \/ duration = "once"

\* PermissionManager.request_permission; utcnow is the default last_used.
request_permission(origin, permission, duration, one_time, utcnow) ==
    LET allowed == allowed_by_policy(compliance_mode, permission)
        grant == [permission |-> permission,
                  origin     |-> origin,
                  duration   |-> duration,
                  granted    |-> allowed,
                  one_time   |-> one_time_flag(one_time, permission, duration),
                  active     |-> allowed,
                  last_used  |-> utcnow]
    IN  /\ Len(audit_events) < MaxAudit
        /\ audit_events' = audited(audit_events,
               audit_record(origin, permission, compliance_mode, allowed))
        /\ grants' = store_grant(grants, grant)
        /\ ret' = [op |-> "request_permission", val |-> grant]
        /\ UNCHANGED <<compliance_mode, exposure_log>>
        /\ OnlyPermissions

\* A use that leaves last_used as it was.
mark_used_keeping_time(gs, origin, permission, when) == gs
\* grant.mark_used(when): self.last_used = when or datetime.utcnow()
mark_used(gs, origin, permission, when) ==
    LET i == origin_index(gs, origin)
        j == permission_index(gs[i].perms, permission)
    IN  [gs EXCEPT ![i].perms[j].last_used = when]

\* A use that expires the grant itself once it has been idle too long.
use_permission_expiring(origin, permission, when) ==
    LET found == get_grant(grants, origin, permission) IN
    /\ IF found = <<>> \/ ~found[1].active
          \/ when - found[1].last_used > IdleTimeout
       THEN /\ ret' = [op |-> "use_permission", val |-> FALSE]
            /\ UNCHANGED permVars
       ELSE /\ Len(exposure_log) < MaxLog
            /\ grants' = mark_used(grants, origin, permission, when)
            /\ exposure_log' = Append(exposure_log,
                   [origin |-> origin, permission |-> permission, timestamp |-> when])
            /\ ret' = [op |-> "use_permission", val |-> TRUE]
            /\ UNCHANGED <<compliance_mode, audit_events>>
    /\ OnlyPermissions

\* use_permission that forgets the `not grant.active` test.
use_permission_ignoring_active(origin, permission, when) ==
    LET found == get_grant(grants, origin, permission) IN
    /\ IF found = <<>>
       THEN /\ ret' = [op |-> "use_permission", val |-> FALSE]
            /\ UNCHANGED permVars
       ELSE /\ Len(exposure_log) < MaxLog
            /\ grants' = LET i == origin_index(grants, origin)
                             j == permission_index(grants[i].perms, permission)
                         IN  [grants EXCEPT ![i].perms[j].last_used = when,
                                            ![i].perms[j].active = TRUE]
            /\ exposure_log' = Append(exposure_log,
                   [origin |-> origin, permission |-> permission, timestamp |-> when])
            /\ ret' = [op |-> "use_permission", val |-> TRUE]
            /\ UNCHANGED <<compliance_mode, audit_events>>
    /\ OnlyPermissions

\* PermissionManager.use_permission; when is the argument or, without one,
\* datetime.utcnow().
use_permission(origin, permission, when) ==
    LET found == get_grant(grants, origin, permission) IN
    /\ IF found = <<>> \/ ~found[1].active
       THEN /\ ret' = [op |-> "use_permission", val |-> FALSE]
            /\ UNCHANGED permVars
       ELSE /\ Len(exposure_log) < MaxLog
            /\ grants' = mark_used(grants, origin, permission, when)
            /\ exposure_log' = Append(exposure_log,
                   [origin |-> origin, permission |-> permission, timestamp |-> when])
            /\ ret' = [op |-> "use_permission", val |-> TRUE]
            /\ UNCHANGED <<compliance_mode, audit_events>>
    /\ OnlyPermissions

\* The idle test with >= for >.
idle_too_long_inclusive(grant, now) ==
    grant.active /\ now - grant.last_used >= IdleTimeout

idle_too_long(grant, now) ==
    grant.active /\ now - grant.last_used > IdleTimeout

\* The loops of revoke_unused from position (i, j) on: origins in insertion
\* order, each origin's permissions in insertion order.
RECURSIVE revoke_scan(_, _, _, _, _)
revoke_scan(gs, log, now, i, j) ==
    IF i > Len(gs) THEN [grants |-> gs, log |-> log]
    ELSE IF j > Len(gs[i].perms) THEN revoke_scan(gs, log, now, i + 1, 1)
    ELSE LET grant == gs[i].perms[j] IN
         IF idle_too_long(grant, now)
         THEN revoke_scan([gs EXCEPT ![i].perms[j].active = FALSE],
                          Append(log, [origin |-> gs[i].origin,
                                       permission |-> grant.permission,
                                       reason |-> "auto-revoked"]),
                          now, i, j + 1)
         ELSE revoke_scan(gs, log, now, i, j + 1)

\* PermissionManager.revoke_unused; now is the argument or datetime.utcnow().
revoke_unused(now) ==
    LET done == revoke_scan(grants, exposure_log, now, 1, 1) IN
    /\ Len(done.log) <= MaxLog
    /\ grants' = done.grants
    /\ exposure_log' = done.log
    /\ ret' = Returned("revoke_unused")
    /\ UNCHANGED <<compliance_mode, audit_events>>
    /\ OnlyPermissions

\* The tab-close test that takes every grant of the origin.
closes_with_tab_any(grant) ==
    TRUE

closes_with_tab(grant) ==
    grant.one_time /\ grant.permission \in ONE_TIME_PERMISSIONS

\* The loop of close_tab over one origin's inner dict, from position j on.
RECURSIVE close_scan(_, _, _, _)
close_scan(gs, log, i, j) ==
    IF j > Len(gs[i].perms) THEN [grants |-> gs, log |-> log]
    ELSE LET grant == gs[i].perms[j] IN
         IF closes_with_tab(grant)
         THEN close_scan([gs EXCEPT ![i].perms[j].active = FALSE],
                         Append(log, [origin |-> gs[i].origin,
                                      permission |-> grant.permission,
                                      reason |-> "tab-closed"]),
                         i, j + 1)
         ELSE close_scan(gs, log, i, j + 1)

\* PermissionManager.close_tab
close_tab(origin) ==
    LET i == origin_index(grants, origin)
        done == IF i = 0 THEN [grants |-> grants, log |-> exposure_log]
                ELSE close_scan(grants, exposure_log, i, 1)
    IN  /\ Len(done.log) <= MaxLog
        /\ grants' = done.grants
        /\ exposure_log' = done.log
        /\ ret' = Returned("close_tab")
        /\ UNCHANGED <<compliance_mode, audit_events>>
        /\ OnlyPermissions

\* PermissionManager.active_permissions
active_permissions(origin) ==
    LET i == origin_index(grants, origin) IN
    IF i = 0 THEN {}
    ELSE {grants[i].perms[j].permission :
            j \in {k \in 1..Len(grants[i].perms) : grants[i].perms[k].active}}

\* PermissionPolicyEngine(compliance_mode) and PermissionManager(policy_engine)
InitPermissionsIn(mode) ==
    /\ compliance_mode = mode
    /\ audit_events = <<>>
    /\ grants = <<>>
    /\ exposure_log = <<>>

\* The dashboard's engine: PermissionPolicyEngine() in its default mode.
InitPermissions == InitPermissionsIn("standard")

(***************************************************************************)
(* Extension store: StaticAnalyzer, PermissionReview,                       *)
(* ReproducibleBuildVerifier, ExtensionStore                                *)
(***************************************************************************)

\* How many review notes the packages of a run hold in all.
MaxNotes == 2

SENSITIVE_APIS == {"nativeMessaging", "clipboard", "fileSystem", "processes"}

Identifiers == {"ext-a", "ext-b"}
Metadata == {[name |-> "translator", version |-> "1.0.0"],
             [name |-> "", version |-> "1.0.0"],
             [name |-> "translator", version |-> ""]}
PermissionLists == {<<"tabs">>, <<"tabs", "clipboard">>}
Signatures == {"", "sig"}
\* A reproducible build, a differing build, and a package whose build_hash
\* and reference_hash are both the empty string, which verify treats as a
\* manifest without reference_hash.
Hashes == {[build_hash |-> "abc123", reference_hash |-> "abc123"],
           [build_hash |-> "abc124", reference_hash |-> "abc123"],
           [build_hash |-> "", reference_hash |-> ""]}

\* The ExtensionPackage objects callers hold; review_notes, the one field
\* the code changes, is the variable review_notes, keyed by the package
\* objects whose list is not empty.
Packages ==
    {[identifier |-> id,
      manifest |-> [name |-> meta.name, version |-> meta.version,
                    permissions |-> perms,
                    reference_hash |-> hash.reference_hash],
      signature |-> sig,
      build_hash |-> hash.build_hash,
      provenance |-> "ci"] :
        id \in Identifiers, meta \in Metadata, perms \in PermissionLists,
        sig \in Signatures, hash \in Hashes}

\* ExtensionPackage.signed
signed(package) == package.signature # ""

sensitive_permissions(manifest) ==
    SelectSeq(manifest.permissions, LAMBDA perm : perm \in SENSITIVE_APIS)

\* StaticAnalyzer.analyze
analyze(manifest) ==
    LET sensitive == sensitive_permissions(manifest)
        high == [k \in 1..Len(sensitive) |->
                    [code |-> "sensitive-permission", severity |-> "high",
                     detail |-> "Permission " \o sensitive[k] \o " gated by default"]]
    IN  IF manifest.name = "" \/ manifest.version = ""
        THEN Append(high, [code |-> "invalid-manifest", severity |-> "critical",
                           detail |-> "Missing metadata"])
        ELSE high

\* A review that rejects a manifest with a sensitive permission.
review_rejecting_sensitive(manifest) ==
    LET denied == sensitive_permissions(manifest) IN
    [approved |-> denied = <<>>,
     notes |-> [k \in 1..Len(denied) |-> denied[k] \o " requires sandboxing"]]
\* PermissionReview.review
review(manifest) ==
    LET denied == sensitive_permissions(manifest) IN
    [approved |-> TRUE,
     notes |-> [k \in 1..Len(denied) |-> denied[k] \o " requires sandboxing"]]

\* A verifier that compares the hashes without asking for a reference hash.
verify_without_reference(package) ==
    package.build_hash = package.manifest.reference_hash
\* ReproducibleBuildVerifier.verify
verify(package) ==
    IF package.manifest.reference_hash = "" THEN FALSE
    ELSE package.build_hash = package.manifest.reference_hash

has_critical(findings) ==
    \E k \in 1..Len(findings) : findings[k].severity = "critical"

\* package.review_notes
notes_of(package) ==
    IF package \in DOMAIN review_notes THEN review_notes[package] ELSE <<>>

\* review_notes after package.review_notes.extend(notes)
extend_notes(package, notes) ==
    IF notes = <<>> THEN review_notes
    ELSE dict_set(review_notes, package, notes_of(package) \o notes)

\* The review notes held by all package objects together.
RECURSIVE notes_held(_)
notes_held(notes) ==
    IF DOMAIN notes = {} THEN 0
    ELSE LET package == CHOOSE q \in DOMAIN notes : TRUE
         IN  Len(notes[package])
               + notes_held([q \in DOMAIN notes \ {package} |-> notes[q]])

\* publish that verifies the build before it analyses the manifest.
publish_verifying_first(package) ==
    /\ IF ~signed(package)
       THEN /\ ret' = Raised("publish", "unsigned-extension")
            /\ UNCHANGED storeVars
       ELSE IF ~verify(package)
       THEN /\ ret' = Raised("publish", "non-reproducible-build")
            /\ UNCHANGED storeVars
       ELSE LET findings == analyze(package.manifest) IN
            /\ analysis_findings' =
                  dict_set(analysis_findings, package.identifier, findings)
            /\ IF has_critical(findings)
               THEN /\ ret' = Raised("publish", "static-analysis-blocked")
                    /\ UNCHANGED <<review_notes, extensions>>
               ELSE /\ review_notes' =
                          extend_notes(package, review(package.manifest).notes)
                    /\ notes_held(review_notes') <= MaxNotes
                    /\ extensions' = dict_set(extensions, package.identifier, package)
                    /\ ret' = Returned("publish")
    /\ OnlyStore

\* ExtensionStore.publish
publish(package) ==
    /\ IF ~signed(package)
       THEN /\ ret' = Raised("publish", "unsigned-extension")
            /\ UNCHANGED storeVars
       ELSE LET findings == analyze(package.manifest) IN
            /\ analysis_findings' =
                  dict_set(analysis_findings, package.identifier, findings)
            /\ IF has_critical(findings)
               THEN /\ ret' = Raised("publish", "static-analysis-blocked")
                    /\ UNCHANGED <<review_notes, extensions>>
               ELSE LET reviewed == review(package.manifest) IN
                    /\ review_notes' = extend_notes(package, reviewed.notes)
                    /\ notes_held(review_notes') <= MaxNotes
                    /\ IF ~reviewed.approved
                       THEN /\ ret' = Raised("publish", "permission-review-denied")
                            /\ UNCHANGED extensions
                       ELSE IF ~verify(package)
                       THEN /\ ret' = Raised("publish", "non-reproducible-build")
                            /\ UNCHANGED extensions
                       ELSE /\ extensions' =
                                  dict_set(extensions, package.identifier, package)
                            /\ ret' = Returned("publish")
    /\ OnlyStore

\* ExtensionStore.findings_for
findings_for(identifier) ==
    IF identifier \in DOMAIN analysis_findings
    THEN analysis_findings[identifier] ELSE <<>>

InitStore ==
    /\ review_notes = EmptyDict
    /\ extensions = EmptyDict
    /\ analysis_findings = EmptyDict

NextStore ==
    \E package \in Packages : publish(package)

\* The error the first failing stage of the publish pipeline reports for a
\* package, "" when no stage fails.
first_failing_stage(package) ==
    IF package.signature = "" THEN "unsigned-extension"
    ELSE IF package.manifest.name = "" \/ package.manifest.version = ""
    THEN "static-analysis-blocked"
    ELSE IF package.manifest.reference_hash = ""
            \/ package.build_hash # package.manifest.reference_hash
    THEN "non-reproducible-build"
    ELSE ""

\* C6: publish reports the error of the earliest failing stage in the order
\* signature, static analysis, permission review, reproducible build, and no
\* later stage runs after a failure: an unsigned package leaves findings,
\* notes and store alone; a package blocked by static analysis gets no review
\* notes and is not stored; a non-reproducible package is not stored.
C6_EarliestFailingStage ==
    [][ \A package \in Packages :
          publish(package) =>
            LET failure == first_failing_stage(package) IN
            /\ ret' = IF failure = "" THEN Returned("publish")
                      ELSE Raised("publish", failure)
            /\ failure = "unsigned-extension" => UNCHANGED storeVars
            /\ failure = "static-analysis-blocked"
                 => UNCHANGED <<review_notes, extensions>>
            /\ failure = "non-reproducible-build" => UNCHANGED extensions
      ]_vars

\* A signed package without name or version was blocked by static analysis
\* although a reproducible build of its identifier is in the store: nothing
\* was reviewed after the failure.
C6_Witness ==
    /\ ret = Raised("publish", "static-analysis-blocked")
    /\ \E id \in DOMAIN analysis_findings :
          /\ has_critical(analysis_findings[id])
          /\ id \in DOMAIN extensions
          /\ \A package \in Packages :
                (package.identifier = id /\ first_failing_stage(package) # "")
                => notes_of(package) = <<>>

\* C7 as stated: whenever publish(package) raises, the published-package
\* map, the recorded analysis findings and the package's review notes are as
\* they were before the call.
C7_RejectedPublishRetainsNothing ==
    [][ \A package \in Packages :
          (publish(package) /\ "error" \in DOMAIN ret')
          => UNCHANGED <<extensions, analysis_findings, review_notes>>
      ]_vars

\* C32: no package and no store state makes publish raise
\* permission-review-denied; for a signed package with name and version,
\* which reaches the review stage, publish appends to the package's review
\* notes one "<perm> requires sandboxing" note for each sensitive permission
\* of the manifest, in manifest order, and nothing else.
C32_ReviewNeverRejects ==
    [][ \A package \in Packages :
          publish(package)
          => /\ ret' # Raised("publish", "permission-review-denied")
             /\ ( /\ package.signature # ""
                  /\ package.manifest.name # ""
                  /\ package.manifest.version # "" )
                => LET sensitive ==
                         SelectSeq(package.manifest.permissions,
                                   LAMBDA perm : perm \in {"nativeMessaging",
                                       "clipboard", "fileSystem", "processes"})
                   IN  notes_of(package)'
                         = notes_of(package)
                             \o [k \in 1..Len(sensitive) |->
                                   sensitive[k] \o " requires sandboxing"]
      ]_vars

\* A package with a sensitive permission went through the review, which
\* left its note, and was then refused as a non-reproducible build.
C32_Witness ==
    /\ ret = Raised("publish", "non-reproducible-build")
    /\ \E package \in DOMAIN review_notes :
          /\ review_notes[package] = <<"clipboard requires sandboxing">>
          /\ package.build_hash # package.manifest.reference_hash
          /\ package.identifier \notin DOMAIN extensions

\* C23 as stated: for a signed package with no critical static-analysis
\* finding, publish succeeds exactly when build_hash equals
\* manifest.reference_hash and otherwise raises non-reproducible-build; on
\* success the package is stored under its identifier, replacing any earlier
\* entry.
C23_PublishSucceedsIffHashesEqual ==
    [][ \A package \in Packages :
          ( /\ publish(package)
            /\ package.signature # ""
            /\ package.manifest.name # ""
            /\ package.manifest.version # "" )
          => IF package.build_hash = package.manifest.reference_hash
             THEN /\ ret' = Returned("publish")
                  /\ package.identifier \in DOMAIN extensions'
                  /\ extensions'[package.identifier] = package
                  /\ \A id \in DOMAIN extensions \ {package.identifier} :
                        id \in DOMAIN extensions' /\ extensions'[id] = extensions[id]
             ELSE /\ ret' = Raised("publish", "non-reproducible-build")
                  /\ extensions' = extensions
      ]_vars

(***************************************************************************)
(* Extension manager: ManifestGatekeeper, ExtensionPolicy, ExtensionManager *)
(***************************************************************************)

\* ManifestGatekeeper.gate
gate(manifest) ==
    [perm \in {manifest.permissions[k] : k \in 1..Len(manifest.permissions)}
        |-> perm \notin SENSITIVE_APIS]

\* ExtensionPolicy()
new_policy == [allowlist |-> {}, denylist |-> {}, gated_permissions |-> EmptyDict]

\* self.policies after self.policies.setdefault(container, ExtensionPolicy())
policies_with(container) ==
    IF container \in DOMAIN policies THEN policies
    ELSE dict_set(policies, container, new_policy)

\* An ExtensionPolicy object no other key of policies holds; objects are
\* named after containers.
fresh_object(container) ==
    LET held == {policy_object[other] :
                    other \in DOMAIN policy_object \ {container}}
    IN  IF container \notin held THEN container
        ELSE CHOOSE object \in Containers \ held : TRUE

\* The objects held after self.policies.setdefault(container, ExtensionPolicy())
objects_with(container) ==
    IF container \in DOMAIN policy_object THEN policy_object
    ELSE dict_set(policy_object, container, fresh_object(container))

\* A write to the policy object of container, seen under every key that
\* holds that object.
written(with, objects, container, policy) ==
    [other \in DOMAIN with |->
        IF objects[other] = objects[container] THEN policy ELSE with[other]]

\* self.active_extensions.get(container, [])
installed_for(container) ==
    IF container \in DOMAIN active_extensions
    THEN active_extensions[container] ELSE <<>>

\* A membership test that finds nothing.
contains_nothing(list, item) == FALSE
\* item in list
contains(list, item) == \E k \in 1..Len(list) : list[k] = item

\* list.remove(item): the list without the first occurrence of item.
remove_first(list, item) ==
    LET at == CHOOSE k \in 1..Len(list) :
                  list[k] = item /\ \A m \in 1..(k - 1) : list[m] # item
    IN  SubSeq(list, 1, at - 1) \o SubSeq(list, at + 1, Len(list))

\* ExtensionManager.allow_extension
allow_extension(container, extension_id) ==
    /\ policies' =
          written(policies_with(container), objects_with(container), container,
                  [policies_with(container)[container] EXCEPT
                      !.allowlist = @ \cup {extension_id},
                      !.denylist = @ \ {extension_id}])
    /\ policy_object' = objects_with(container)
    /\ UNCHANGED active_extensions
    /\ ret' = Returned("allow_extension")
    /\ OnlyManager

\* ExtensionManager.deny_extension
deny_extension(container, extension_id) ==
    /\ policies' =
          written(policies_with(container), objects_with(container), container,
                  [policies_with(container)[container] EXCEPT
                      !.denylist = @ \cup {extension_id},
                      !.allowlist = @ \ {extension_id}])
    /\ policy_object' = objects_with(container)
    /\ IF contains(installed_for(container), extension_id)
       THEN active_extensions' = [active_extensions EXCEPT
                ![container] = remove_first(@, extension_id)]
       ELSE UNCHANGED active_extensions
    /\ ret' = Returned("deny_extension")
    /\ OnlyManager

\* install that tests the allowlist before the denylist.
install_allowlist_first(container, package) ==
    LET with == policies_with(container)
        policy == with[container]
        id == package.identifier
    IN  /\ IF policy.allowlist # {} /\ id \notin policy.allowlist
           THEN /\ ret' = Raised("install", "extension-not-allowlisted")
                /\ policies' = with
                /\ UNCHANGED active_extensions
           ELSE IF id \in policy.denylist
           THEN /\ ret' = Raised("install", "extension-denied")
                /\ policies' = with
                /\ UNCHANGED active_extensions
           ELSE /\ policies' =
                      written(with, objects_with(container), container,
                              [policy EXCEPT !.gated_permissions =
                                  dict_set(@, id, gate(package.manifest))])
                /\ active_extensions' =
                      dict_set(active_extensions, container,
                               IF contains(installed_for(container), id)
                               THEN installed_for(container)
                               ELSE Append(installed_for(container), id))
                /\ ret' = Returned("install")
        /\ policy_object' = objects_with(container)
        /\ OnlyManager

\* ExtensionManager.install
install(container, package) ==
    LET with == policies_with(container)
        policy == with[container]
        id == package.identifier
    IN  /\ IF id \in policy.denylist
           THEN /\ ret' = Raised("install", "extension-denied")
                /\ policies' = with
                /\ UNCHANGED active_extensions
           ELSE IF policy.allowlist # {} /\ id \notin policy.allowlist
           THEN /\ ret' = Raised("install", "extension-not-allowlisted")
                /\ policies' = with
                /\ UNCHANGED active_extensions
           ELSE /\ policies' =
                      written(with, objects_with(container), container,
                              [policy EXCEPT !.gated_permissions =
                                  dict_set(@, id, gate(package.manifest))])
                /\ active_extensions' =
                      dict_set(active_extensions, container,
                               IF contains(installed_for(container), id)
                               THEN installed_for(container)
                               ELSE Append(installed_for(container), id))
                /\ ret' = Returned("install")
        /\ policy_object' = objects_with(container)
        /\ OnlyManager

\* ExtensionPolicy.clone: the value of the new object, built from copies of
\* the two sets and of each inner dict.
clone(policy) ==
    [allowlist |-> policy.allowlist,
     denylist |-> policy.denylist,
     gated_permissions |-> policy.gated_permissions]

\* A clone that hands back the source's own object.
source_object(source, target) == policy_object[source]
\* The object self.policies[source].clone() returns: a new ExtensionPolicy.
cloned_object(source, target) == fresh_object(target)

\* ExtensionManager.clone_policy
clone_policy(source, target) ==
    /\ IF source \notin DOMAIN policies
       THEN /\ policies' = dict_set(policies, target, new_policy)
            /\ policy_object' =
                  dict_set(policy_object, target, fresh_object(target))
            /\ UNCHANGED active_extensions
       ELSE /\ policies' = dict_set(policies, target, clone(policies[source]))
            /\ policy_object' =
                  dict_set(policy_object, target, cloned_object(source, target))
            /\ active_extensions' =
                  dict_set(active_extensions, target, installed_for(source))
    /\ ret' = Returned("clone_policy")
    /\ OnlyManager

\* A decision that looks at the denylist only.
is_allowed_by_denylist_only(container, extension_id) ==
    LET policy == IF container \in DOMAIN policies THEN policies[container]
                  ELSE new_policy
    IN  extension_id \notin policy.denylist
\* ExtensionManager.is_allowed
is_allowed(container, extension_id) ==
    LET policy == IF container \in DOMAIN policies THEN policies[container]
                  ELSE new_policy
    IN  IF policy.allowlist # {} /\ extension_id \notin policy.allowlist
        THEN FALSE
        ELSE extension_id \notin policy.denylist

\* ExtensionManager.gated_permissions
gated_permissions(container, extension_id) ==
    LET policy == IF container \in DOMAIN policies THEN policies[container]
                  ELSE new_policy
    IN  IF extension_id \in DOMAIN policy.gated_permissions
        THEN policy.gated_permissions[extension_id] ELSE EmptyDict

InitManager ==
    /\ policies = EmptyDict
    /\ policy_object = EmptyDict
    /\ active_extensions = EmptyDict

\* install reads only package.identifier and package.manifest.permissions:
\* one publishable package per identifier, asking for a sensitive and a
\* non-sensitive permission.
InstallPackages ==
    {package \in Packages :
        /\ package.signature = "sig"
        /\ package.manifest = [package.manifest EXCEPT !.name = "translator", !.version = "1.0.0"]
        /\ package.build_hash = package.manifest.reference_hash
        /\ package.build_hash # ""
        /\ Len(package.manifest.permissions) = 2}

NextManager ==
    \/ \E container \in Containers, extension_id \in Identifiers :
           allow_extension(container, extension_id)
    \/ \E container \in Containers, extension_id \in Identifiers :
           deny_extension(container, extension_id)
    \/ \E container \in Containers, package \in InstallPackages :
           install(container, package)
    \/ \E source \in Containers, target \in Containers :
           clone_policy(source, target)

\* self.policies.get(container, ExtensionPolicy())
policy_of(container) ==
    IF container \in DOMAIN policies THEN policies[container] ELSE new_policy

\* C14 as stated: after clone_policy(source, target), for every source,
\* tracked or not, the target's allowlist, denylist, gated-permission map and
\* active-extension list equal the source's at the time of the call.
C14_CloneCopiesSource ==
    [][ \A source \in Containers, target \in Containers :
          clone_policy(source, target) =>
            /\ policy_of(target)' = policy_of(source)
            /\ installed_for(target)' = installed_for(source)
      ]_vars

\* C15: allow_extension, deny_extension and install on one container leave
\* every other container's allowlist, denylist, gated-permission map and
\* active-extension list unchanged, so after clone_policy(source, target) a
\* change of the target never shows in the source, nor one of the source in
\* the target.
C15_CloneIsolation ==
    [][ \A container \in Containers :
          ( \/ \E extension_id \in Identifiers :
                  \/ allow_extension(container, extension_id)
                  \/ deny_extension(container, extension_id)
            \/ \E package \in InstallPackages : install(container, package) )
          => \A other \in Containers \ {container} :
                /\ policy_of(other)' = policy_of(other)
                /\ installed_for(other)' = installed_for(other)
      ]_vars

\* Two containers hold the same gated-permission map and active list, as
\* after a clone, and an allow_extension has then changed one allowlist only.
C15_Witness ==
    /\ ret = Returned("allow_extension")
    /\ DOMAIN policies = Containers
    /\ policies["alpha"].gated_permissions = policies["beta"].gated_permissions
    /\ policies["alpha"].gated_permissions # EmptyDict
    /\ DOMAIN active_extensions = Containers
    /\ active_extensions["alpha"] = active_extensions["beta"]
    /\ active_extensions["alpha"] # <<>>
    /\ policies["alpha"].allowlist # policies["beta"].allowlist

\* C8: install raises extension-denied, never extension-not-allowlisted,
\* whenever the package id is in the container's denylist, whatever the
\* allowlist holds; an install that raises leaves the container's
\* gated-permission map and active-extension list as they were.
C8_DenylistPrecedence ==
    [][ \A container \in Containers, package \in InstallPackages :
          install(container, package) =>
            /\ ( /\ container \in DOMAIN policies
                 /\ package.identifier \in policies[container].denylist )
               => ret' = Raised("install", "extension-denied")
            /\ "error" \in DOMAIN ret' =>
                 /\ \A id \in Identifiers :
                       gated_permissions(container, id)'
                         = gated_permissions(container, id)
                 /\ installed_for(container)' = installed_for(container)
      ]_vars

\* An install was refused as denied in a container whose allowlist is not
\* empty and does not hold the denied id, with another extension active.
C8_Witness ==
    /\ ret = Raised("install", "extension-denied")
    /\ \E container \in DOMAIN policies :
          /\ policies[container].allowlist # {}
          /\ policies[container].denylist # {}
          /\ installed_for(container) # <<>>

\* C29: after any sequence of install, allow_extension, deny_extension and
\* clone_policy calls, no container's active-extension list holds the same
\* extension id twice; an install of a package whose id is already active
\* in the container leaves the list as it is.
C29_ActiveListHasNoDuplicates ==
    [][ /\ \A container \in DOMAIN active_extensions' :
             \A k, m \in 1..Len(active_extensions'[container]) :
                active_extensions'[container][k] = active_extensions'[container][m]
                => k = m
        /\ \A container \in Containers, package \in InstallPackages :
             ( /\ install(container, package)
               /\ \E k \in 1..Len(installed_for(container)) :
                     installed_for(container)[k] = package.identifier )
             => installed_for(container)' = installed_for(container)
      ]_vars

\* An install has just returned in a container that holds both extension
\* ids, and the other container holds the same two.
C29_Witness ==
    /\ ret = Returned("install")
    /\ DOMAIN active_extensions = Containers
    /\ \A container \in Containers : Len(active_extensions[container]) = 2

(***************************************************************************)
(* Entropy budget: EntropyBudget                                            *)
(***************************************************************************)

\* The budget the dashboard builds: EntropyBudget(limit_bits=12).
limit_bits == 12
MaxEvents == 3
Apis == {"canvas", "webgl"}
\* Two amounts that add up to limit_bits, one above it, one negative.
BitChoices == {-3, 5, 7, 13}

\* sum(values) over a dict's values
RECURSIVE sum_values(_)
sum_values(d) ==
    IF DOMAIN d = {} THEN 0
    ELSE LET key == CHOOSE k \in DOMAIN d : TRUE
         IN  d[key] + sum_values([k \in DOMAIN d \ {key} |-> d[k]])

\* EntropyBudget.total_bits
total_bits == sum_values(usage)

\* self.usage.get(api, 0)
usage_of(api) == IF api \in DOMAIN usage THEN usage[api] ELSE 0

\* The f-strings consume appends, as records of the values they interpolate.
consume_event(api, bits, total) ==
    [event |-> "consume", api |-> api, bits |-> bits, total |-> total]

budget_exceeded_event(api, total) ==
    [event |-> "budget-exceeded", api |-> api, total |-> total,
     limit |-> limit_bits]

over_budget_inclusive(total) == total >= limit_bits
\* total > self.limit_bits
over_budget(total) == total > limit_bits

\* EntropyBudget.consume
consume(api, bits) ==
    LET tally == dict_set(usage, api, usage_of(api) + bits)
        total == sum_values(tally)
        traced == Append(devtools_events, consume_event(api, bits, total))
    IN  /\ Len(devtools_events) < MaxEvents
        /\ usage' = tally
        /\ IF over_budget(total)
           THEN /\ devtools_events' =
                      Append(traced, budget_exceeded_event(api, total))
                /\ telemetry_events' =
                      Append(telemetry_events, budget_exceeded_event(api, total))
                /\ ret' = [op |-> "consume", val |-> FALSE]
           ELSE /\ devtools_events' = traced
                /\ UNCHANGED telemetry_events
                /\ ret' = [op |-> "consume", val |-> TRUE]
        /\ OnlyEntropy

\* EntropyBudget.reset
reset ==
    /\ usage' = EmptyDict
    /\ devtools_events' = <<>>
    /\ telemetry_events' = <<>>
    /\ ret' = Returned("reset")
    /\ OnlyEntropy

InitEntropy ==
    /\ usage = EmptyDict
    /\ devtools_events = <<>>
    /\ telemetry_events = <<>>

\* consume as two callers on different threads run it: EntropyBudget holds
\* no lock, so the callers interleave between the statements of consume.

\* current = self.usage.get(api, 0)
consume_read(caller, api, bits) ==
    /\ frames[caller].pc = "idle"
    /\ frames' = [frames EXCEPT ![caller] =
                     [pc |-> "read", api |-> api, bits |-> bits,
                      current |-> usage_of(api)]]
    /\ UNCHANGED <<entVars, ret>>
    /\ OnlyEntropyStep

\* self.usage[api] = current + bits
consume_write(caller) ==
    LET frame == frames[caller] IN
    /\ frame.pc = "read"
    /\ usage' = dict_set(usage, frame.api, frame.current + frame.bits)
    /\ frames' = [frames EXCEPT ![caller].pc = "written"]
    /\ UNCHANGED <<devtools_events, telemetry_events, ret>>
    /\ OnlyEntropyStep

\* total = sum(self.usage.values())
consume_sum(caller) ==
    LET frame == frames[caller] IN
    /\ frame.pc = "written"
    /\ frames' = [frames EXCEPT ![caller] =
                     [pc |-> "summed", api |-> frame.api, bits |-> frame.bits,
                      current |-> frame.current, total |-> sum_values(usage)]]
    /\ UNCHANGED <<entVars, ret>>
    /\ OnlyEntropyStep

\* The rest of consume: the trace event, the test of total against the
\* limit, the budget-exceeded events and the return.
consume_return(caller) ==
    LET frame == frames[caller]
        traced == Append(devtools_events,
                         consume_event(frame.api, frame.bits, frame.total))
    IN  /\ frame.pc = "summed"
        /\ IF over_budget(frame.total)
           THEN /\ devtools_events' =
                      Append(traced, budget_exceeded_event(frame.api, frame.total))
                /\ telemetry_events' =
                      Append(telemetry_events,
                             budget_exceeded_event(frame.api, frame.total))
                /\ ret' = [op |-> "consume", val |-> FALSE]
           ELSE /\ devtools_events' = traced
                /\ UNCHANGED telemetry_events
                /\ ret' = [op |-> "consume", val |-> TRUE]
        /\ frames' = [frames EXCEPT ![caller].pc = "returned"]
        /\ UNCHANGED usage
        /\ OnlyEntropyStep

InitFrames == frames = [caller \in Callers |-> idle]

NextEntropyConcurrent ==
    \/ \E caller \in Callers, api \in Apis, bits \in BitChoices :
           consume_read(caller, api, bits)
    \/ \E caller \in Callers : consume_write(caller)
    \/ \E caller \in Callers : consume_sum(caller)
    \/ \E caller \in Callers : consume_return(caller)

NextEntropy ==
    \/ \E api \in Apis, bits \in BitChoices : consume(api, bits)
    \/ reset

(***************************************************************************)
(* Device randomizer and dashboard: DeviceRandomizer, PrivacyDashboard      *)
(***************************************************************************)

stability_window == 3

\* _bucket with a stability window of one id.
bucket_of_each_window(window_id) == window_id
\* DeviceRandomizer._bucket
bucket_of(window_id) == window_id \div stability_window

\* What random.Random(int(sha256("ghostline-device:<bucket>")[:8], 16))
\* draws for gpu, memory_gb and platform, for the buckets the model visits.
device_class(bucket) ==
    CASE bucket = 0 -> [gpu |-> "Ghostline GPU Class 2", memory_gb |-> 4,
                        platform |-> "macOS"]
      [] bucket = 1 -> [gpu |-> "Ghostline GPU Class 4", memory_gb |-> 8,
                        platform |-> "Linux"]
      [] bucket = 2 -> [gpu |-> "Ghostline GPU Class 5", memory_gb |-> 16,
                        platform |-> "Linux"]
      [] bucket = 3 -> [gpu |-> "Ghostline GPU Class 1", memory_gb |-> 16,
                        platform |-> "Windows"]
      [] bucket = 4 -> [gpu |-> "Ghostline GPU Class 5", memory_gb |-> 4,
                        platform |-> "Linux"]
      [] bucket = 5 -> [gpu |-> "Ghostline GPU Class 3", memory_gb |-> 16,
                        platform |-> "Linux"]

\* DeviceRandomizer.randomize: the cache after the call; the value returned
\* is the cache's entry for the bucket.
randomize(window_id) ==
    IF bucket_of(window_id) \in DOMAIN randomized THEN randomized
    ELSE dict_set(randomized, bucket_of(window_id),
                  device_class(bucket_of(window_id)))

\* The window ids of direct calls of device_randomizer.randomize.
MaxWindowId == 3
WindowIds == 0 .. MaxWindowId

\* The dict randomize(window_id) returns.
randomize_result(window_id) == randomize(window_id)[bucket_of(window_id)]

\* DeviceRandomizer.randomize, called on the dashboard's randomizer.
device_randomizer_randomize(window_id) ==
    /\ randomized' = randomize(window_id)
    /\ ret' = [op |-> "randomize", val |-> randomize_result(window_id)]
    /\ UNCHANGED <<entVars, container_origins, last_device_class, hash_value>>
    /\ OnlyDashboard

\* What urlsplit(url) yields for the urls navigated to.
\* Two pages of one origin, a second origin, and urls without scheme or
\* without host: "not a url", "mailto:x@a.example", "//a.example/inbox".
Urls == {[scheme |-> "https", netloc |-> "a.example", path |-> "/inbox"],
         [scheme |-> "https", netloc |-> "a.example", path |-> "/settings"],
         [scheme |-> "https", netloc |-> "b.example", path |-> ""],
         [scheme |-> "", netloc |-> "", path |-> "not a url"],
         [scheme |-> "mailto", netloc |-> "", path |-> "x@a.example"],
         [scheme |-> "", netloc |-> "a.example", path |-> "/inbox"]}

\* An origin that keeps the path of the url.
origin_with_path(url) ==
    IF url.scheme # "" /\ url.netloc # ""
    THEN url.scheme \o "://" \o url.netloc \o url.path
    ELSE "about:blank"
\* _origin_from_url
origin_from_url(url) ==
    IF url.scheme # "" /\ url.netloc # ""
    THEN url.scheme \o "://" \o url.netloc
    ELSE "about:blank"

NavigationOrigins == {origin_from_url(url) : url \in Urls}

\* hash() of a str is salted per process: a value whose residue falls in
\* bucket 0 and one whose residue falls in bucket 1.
HashValues == {-10002, 3}

abs(n) == IF n < 0 THEN 0 - n ELSE n

\* abs(hash(origin)) % 10_000
bucket_seed(origin) == abs(hash_value[origin]) % 10000

\* record_navigation that leaves the entropy budget alone.
record_navigation_without_reset(container, url) ==
    LET origin == origin_from_url(url)
        cache == randomize(bucket_seed(origin))
    IN  /\ container_origins' = dict_set(container_origins, container, origin)
        /\ UNCHANGED entVars
        /\ randomized' = cache
        /\ last_device_class' =
              dict_set(last_device_class, container,
                       cache[bucket_of(bucket_seed(origin))])
        /\ ret' = Returned("record_navigation")
        /\ UNCHANGED hash_value
        /\ OnlyDashboard

\* PrivacyDashboard.record_navigation
record_navigation(container, url) ==
    LET origin == origin_from_url(url)
        cache == randomize(bucket_seed(origin))
    IN  /\ container_origins' = dict_set(container_origins, container, origin)
        /\ usage' = EmptyDict
        /\ devtools_events' = <<>>
        /\ telemetry_events' = <<>>
        /\ randomized' = cache
        /\ last_device_class' =
              dict_set(last_device_class, container,
                       cache[bucket_of(bucket_seed(origin))])
        /\ ret' = Returned("record_navigation")
        /\ UNCHANGED hash_value
        /\ OnlyDashboard

\* self._container_origins after setdefault(container, "about:blank")
origins_with(container) ==
    IF container \in DOMAIN container_origins THEN container_origins
    ELSE dict_set(container_origins, container, "about:blank")

\* The dict status_for_container returns, for the components modelled here.
status(container) ==
    [uniformity |-> profile_for(container).name,
     entropy_bits |-> total_bits,
     container_origin |-> origins_with(container)[container],
     device_class |-> IF container \in DOMAIN last_device_class
                      THEN last_device_class[container] ELSE EmptyDict,
     extensions |-> installed_for(container),
     permissions |-> active_permissions(origins_with(container)[container]),
     policy_mode |-> compliance_mode]

\* PrivacyDashboard.status_for_container
status_for_container(container) ==
    /\ container_origins' = origins_with(container)
    /\ ret' = [op |-> "status_for_container", val |-> status(container)]
    /\ UNCHANGED <<entVars, randomized, last_device_class, hash_value>>
    /\ OnlyDashboard

InitDashboard ==
    /\ randomized = EmptyDict
    /\ container_origins = EmptyDict
    /\ last_device_class = EmptyDict
    /\ hash_value = [origin \in NavigationOrigins |-> 3]

\* What pages of the dashboard's containers consume between navigations.
NextDashboard ==
    \/ \E container \in Containers, url \in Urls :
           record_navigation(container, url)
    \/ \E container \in Containers : status_for_container(container)
    \/ \E bits \in {7} : consume("canvas", bits)
    \/ reset
    \/ \E window_id \in WindowIds : device_randomizer_randomize(window_id)

(***************************************************************************)
(* Container badges: ContainerUX                                            *)
(***************************************************************************)

PALETTE == <<"#4caf50", "#2196f3", "#ff9800", "#9c27b0", "#607d8b">>

\* How many colours a run hands out: one more than the palette holds.
MaxColours == 6

\* ContainerUX._build_templates; the notes of a bundle, free text no code
\* reads, are left out.
templates ==
    [balanced |-> [name |-> "balanced", uniformity_preset |-> "balanced",
                   tor_required |-> FALSE, proxy_mode |-> "standard"],
     research |-> [name |-> "research", uniformity_preset |-> "strict",
                   tor_required |-> TRUE, proxy_mode |-> "tor"],
     strict   |-> [name |-> "strict", uniformity_preset |-> "strict",
                   tor_required |-> FALSE, proxy_mode |-> "hardened"],
     shopping |-> [name |-> "shopping", uniformity_preset |-> "balanced",
                   tor_required |-> FALSE, proxy_mode |-> "standard"],
     banking  |-> [name |-> "banking", uniformity_preset |-> "strict",
                   tor_required |-> FALSE, proxy_mode |-> "hardened"]]

TemplateArguments == {"research", "shopping", "banking", "gaming"}

\* The colour after the one the palette position names.
next_color_one_ahead == PALETTE[((palette_index + 1) % Len(PALETTE)) + 1]
\* PALETTE[self._palette_index % len(PALETTE)], on a 0-based list
next_color == PALETTE[(palette_index % Len(PALETTE)) + 1]

\* the ContainerBadge register_container builds
new_badge(name, template) ==
    [name |-> name,
     color |-> next_color,
     policy |-> templates[template],
     isolation_badge |-> "isolated:" \o templates[template].uniformity_preset]

\* ContainerUX.register_container
register_container(name, template) ==
    /\ IF template \notin DOMAIN templates
       THEN /\ ret' = Raised("register_container", "unknown-template:" \o template)
            /\ UNCHANGED uxVars
       ELSE /\ palette_index < MaxColours
            /\ palette_index' = palette_index + 1
            /\ badges' = dict_set(badges, name, new_badge(name, template))
            /\ ret' = [op |-> "register_container",
                       val |-> new_badge(name, template)]
    /\ OnlyContainers

\* ContainerUX.badge_for
badge_for(name) ==
    /\ ret' = [op |-> "badge_for",
               val |-> IF name \in DOMAIN badges THEN badges[name] ELSE "None"]
    /\ UNCHANGED uxVars
    /\ OnlyContainers

InitContainers ==
    /\ badges = EmptyDict
    /\ palette_index = 0

NextContainers ==
    \/ \E name \in Containers, template \in TemplateArguments :
           register_container(name, template)
    \/ \E name \in Containers : badge_for(name)

\* C13 as stated: register_container for a name that already has a badge
\* returns the existing badge unchanged, whatever template is passed, and
\* does not advance the palette position.
C13_RegisterContainerIdempotent ==
    [][ \A name \in Containers, template \in TemplateArguments :
          (register_container(name, template) /\ name \in DOMAIN badges)
          => /\ ret' = [op |-> "register_container", val |-> badges[name]]
             /\ UNCHANGED uxVars
      ]_vars

\* C28: the k-th successful register_container call, counting from 0, gets
\* palette colour k mod 5 (_palette_index is k: it starts at 0 and only a
\* successful registration advances it, by one), and a call that fails with
\* unknown-template neither consumes a colour nor records a badge.
C28_ColoursRoundRobin ==
    [][ /\ \A name \in Containers, template \in TemplateArguments :
             register_container(name, template)
             => IF template \in {"balanced", "research", "strict", "shopping",
                                 "banking"}
                THEN /\ ret'.val.color
                          = <<"#4caf50", "#2196f3", "#ff9800", "#9c27b0",
                              "#607d8b">>[(palette_index % 5) + 1]
                     /\ badges'[name] = ret'.val
                     /\ palette_index' = palette_index + 1
                ELSE /\ ret' = Raised("register_container",
                                      "unknown-template:" \o template)
                     /\ palette_index' = palette_index
                     /\ badges' = badges
        /\ ret'.op # "register_container" => palette_index' = palette_index
      ]_vars

\* The sixth successful registration has just been given the first colour
\* of the palette again.
C28_Witness ==
    /\ ret.op = "register_container"
    /\ "val" \in DOMAIN ret
    /\ palette_index = 6
    /\ ret.val.color = "#4caf50"
    /\ \E name \in DOMAIN badges : badges[name].color = "#607d8b"

(***************************************************************************)
(* Extension sandbox: ResourceBudget, ExtensionSandboxMonitor               *)
(***************************************************************************)

\* ResourceBudget(cpu_ms, memory_mb, network_kb)
ResourceBudget(cpu_ms, memory_mb, network_kb) ==
    [cpu_ms |-> cpu_ms, memory_mb |-> memory_mb, network_kb |-> network_kb]

\* ResourceBudget()
default_budget == ResourceBudget(50, 128, 512)

MaxAlerts == 2

\* The default ceilings, and ceilings the sampled amounts reach exactly.
BudgetArguments == {default_budget, ResourceBudget(60, 100, 300)}

\* (cpu_ms, memory_mb, network_kb) of a record_usage call
UsageArguments == {<<30, 0, 0>>, <<0, 100, 0>>, <<0, 0, 300>>, <<30, 100, 300>>}

\* self.usage after self.usage.setdefault(extension_id, ResourceBudget(0, 0, 0))
usage_with(extension_id) ==
    IF extension_id \in DOMAIN sandbox_usage THEN sandbox_usage
    ELSE dict_set(sandbox_usage, extension_id, ResourceBudget(0, 0, 0))

\* self.budgets.get(extension_id, ResourceBudget())
budget_of(extension_id) ==
    IF extension_id \in DOMAIN budgets THEN budgets[extension_id]
    ELSE default_budget

\* ExtensionSandboxMonitor.set_budget
set_budget(extension_id, budget) ==
    /\ budgets' = dict_set(budgets, extension_id, budget)
    /\ sandbox_usage' = usage_with(extension_id)
    /\ UNCHANGED alerts
    /\ ret' = Returned("set_budget")
    /\ OnlySandbox

over_ceiling_inclusive(used, budget) ==
    \/ used.cpu_ms >= budget.cpu_ms
    \/ used.memory_mb >= budget.memory_mb
    \/ used.network_kb >= budget.network_kb
\* the condition of record_usage's if
over_ceiling(used, budget) ==
    \/ used.cpu_ms > budget.cpu_ms
    \/ used.memory_mb > budget.memory_mb
    \/ used.network_kb > budget.network_kb

\* ExtensionSandboxMonitor.record_usage
record_usage(extension_id, cpu_ms, memory_mb, network_kb) ==
    LET before == usage_with(extension_id)[extension_id]
        used == ResourceBudget(before.cpu_ms + cpu_ms,
                               before.memory_mb + memory_mb,
                               before.network_kb + network_kb)
    IN  /\ Len(alerts) < MaxAlerts
        /\ sandbox_usage' = dict_set(sandbox_usage, extension_id, used)
        /\ alerts' = IF over_ceiling(used, budget_of(extension_id))
                     THEN Append(alerts, "anomaly:" \o extension_id)
                     ELSE alerts
        /\ UNCHANGED budgets
        /\ ret' = Returned("record_usage")
        /\ OnlySandbox

InitSandbox ==
    /\ budgets = EmptyDict
    /\ sandbox_usage = EmptyDict
    /\ alerts = <<>>

NextSandbox ==
    \/ \E extension_id \in Identifiers, budget \in BudgetArguments :
           set_budget(extension_id, budget)
    \/ \E extension_id \in Identifiers, amounts \in UsageArguments :
           record_usage(extension_id, amounts[1], amounts[2], amounts[3])

\* The running usage recorded for an extension, zero when none is recorded.
recorded_usage(extension_id) ==
    IF extension_id \in DOMAIN sandbox_usage THEN sandbox_usage[extension_id]
    ELSE ResourceBudget(0, 0, 0)

\* C16 as stated: right after set_budget(id, budget) the budget is installed
\* and the recorded cpu, memory and network usage of id are all 0, also when
\* usage had been recorded before.
C16_SetBudgetZeroesUsage ==
    [][ \A extension_id \in Identifiers, budget \in BudgetArguments :
          set_budget(extension_id, budget) =>
            /\ budget_of(extension_id)' = budget
            /\ recorded_usage(extension_id)' = ResourceBudget(0, 0, 0)
      ]_vars

\* C17: record_usage adds the amounts to the extension's running totals
\* (those of other extensions stay), and appends exactly one
\* "anomaly:<id>" alert when, after the addition, a total exceeds the most
\* recently set budget (the default 50/128/512 when none was set), none
\* otherwise; no step removes or rewrites an alert.
C17_RecordUsageContract ==
    [][ /\ \A extension_id \in Identifiers, amounts \in UsageArguments :
             record_usage(extension_id, amounts[1], amounts[2], amounts[3]) =>
               LET before == recorded_usage(extension_id)
                   after == recorded_usage(extension_id)'
                   ceiling == IF extension_id \in DOMAIN budgets
                              THEN budgets[extension_id]
                              ELSE ResourceBudget(50, 128, 512)
                   exceeded == \/ after.cpu_ms > ceiling.cpu_ms
                               \/ after.memory_mb > ceiling.memory_mb
                               \/ after.network_kb > ceiling.network_kb
               IN  /\ after.cpu_ms = before.cpu_ms + amounts[1]
                   /\ after.memory_mb = before.memory_mb + amounts[2]
                   /\ after.network_kb = before.network_kb + amounts[3]
                   /\ \A other \in Identifiers \ {extension_id} :
                         recorded_usage(other)' = recorded_usage(other)
                   /\ alerts' = IF exceeded
                                THEN Append(alerts, "anomaly:" \o extension_id)
                                ELSE alerts
        /\ Len(alerts') >= Len(alerts)
        /\ SubSeq(alerts', 1, Len(alerts)) = alerts
      ]_vars

\* Usage that reached a set ceiling exactly raised no alert, and usage
\* beyond a ceiling raised one: one extension sits on its memory ceiling
\* with no alert of its own, the other has an alert.
C17_Witness ==
    /\ ret = Returned("record_usage")
    /\ Len(alerts) = 1
    /\ \E quiet \in DOMAIN budgets \cap DOMAIN sandbox_usage :
          /\ sandbox_usage[quiet].memory_mb = budgets[quiet].memory_mb
          /\ alerts[1] # "anomaly:" \o quiet

(***************************************************************************)
(* Dashboard containers: PrivacyDashboard.ensure_container and               *)
(* set_uniformity over ContainerUX, TorController and UniformityManager      *)
(***************************************************************************)

bootstrap_steps == <<"starting", "connecting", "handshaking", "done">>
pluggable_transports == <<"obfs4", "snowflake">>
\* the list itertools.cycle walks
guard_nodes == <<"guard-a", "guard-b", "guard-c">>

\* transport_preference=None
NoPreference == ""

\* TorController._select_transport
select_transport(preference) ==
    IF preference # NoPreference
       /\ \E k \in 1..Len(pluggable_transports) : pluggable_transports[k] = preference
    THEN preference
    ELSE pluggable_transports[1]

\* min(self.progress_index + 1, len(self.bootstrap_steps) - 1)
next_progress ==
    IF progress_index + 1 < Len(bootstrap_steps) - 1
    THEN progress_index + 1 ELSE Len(bootstrap_steps) - 1

\* next(self.guard_nodes)
next_guard == guard_nodes[guard_cursor + 1]

\* TorCircuit(container=container, guard_node=next(self.guard_nodes))
new_circuit(container) ==
    [container |-> container, guard_node |-> next_guard,
     healthy |-> TRUE, fingerprint_errors |-> 0]

\* locale=None
NoLocale == ""
\* PrivacyDashboard.locale
dashboard_locale == "en-US"
\* locale or self.locale
profile_locale(locale) == IF locale = NoLocale THEN dashboard_locale ELSE locale

\* The three templates with the strict preset, one with the balanced
\* preset, and a name that is no template.
EnsureTemplates == {"research", "strict", "banking", "shopping", "gaming"}
EnsureLocales == {NoLocale, "de-DE"}

\* PrivacyDashboard.ensure_container
ensure_container(name, template, locale) ==
    /\ IF name \notin DOMAIN badges /\ template \notin DOMAIN templates
       THEN /\ ret' = Raised("ensure_container", "unknown-template:" \o template)
            /\ UNCHANGED <<uniVars, uxVars, tplVars, torVars>>
       ELSE LET registers == name \notin DOMAIN badges
                badge == IF registers THEN new_badge(name, template)
                         ELSE badges[name]
                cloned == clone_profile(presets[badge.policy.uniformity_preset],
                                        profile_locale(locale))
            IN  /\ IF registers
                   THEN /\ palette_index < MaxColours
                        /\ palette_index' = palette_index + 1
                        /\ badges' = dict_set(badges, name, badge)
                   ELSE UNCHANGED uxVars
                /\ container_templates' = dict_set(container_templates, name, template)
                /\ IF badge.policy.tor_required
                   THEN /\ tor_enabled' = TRUE
                        /\ progress_index' = next_progress
                        /\ active_transport' = select_transport(NoPreference)
                        /\ IF name \in DOMAIN circuits
                           THEN UNCHANGED <<circuits, guard_cursor>>
                           ELSE /\ circuits' = dict_set(circuits, name, new_circuit(name))
                                /\ guard_cursor' = (guard_cursor + 1) % Len(guard_nodes)
                   ELSE UNCHANGED torVars
                /\ container_locales' =
                      dict_set(container_locales, name, profile_locale(locale))
                /\ container_profiles' = dict_set(container_profiles, name, cloned)
                /\ UNCHANGED base_fonts
                /\ ret' = [op |-> "ensure_container", val |-> badge]
    /\ UNCHANGED <<permVars, storeVars, mgrVars, entVars, dashVars, boxVars,
                   rollVars, frames>>

\* PrivacyDashboard.set_uniformity
set_uniformity(container, preset, locale) ==
    /\ IF preset \notin DOMAIN presets
       THEN /\ ret' = Raised("set_uniformity", "unknown-preset:" \o preset)
            /\ UNCHANGED uniVars
       ELSE /\ container_profiles' =
                  dict_set(container_profiles, container,
                           clone_profile(presets[preset], profile_locale(locale)))
            /\ UNCHANGED base_fonts
            /\ ret' = Returned("set_uniformity")
    /\ UNCHANGED <<permVars, storeVars, mgrVars, entVars, dashVars, uxVars,
                   boxVars, tplVars, torVars, rollVars, frames>>

InitTemplates ==
    /\ container_templates = EmptyDict
    /\ container_locales = EmptyDict

InitTor ==
    /\ tor_enabled = FALSE
    /\ progress_index = 0
    /\ active_transport = "None"
    /\ circuits = EmptyDict
    /\ guard_cursor = 0

NextDashboardContainers ==
    \/ \E name \in Containers, template \in EnsureTemplates,
           locale \in EnsureLocales : ensure_container(name, template, locale)
    \/ \E container \in Containers, preset \in PresetArguments :
           set_uniformity(container, preset, NoLocale)

(***************************************************************************)
(* Tor mode: TorCircuit, TorController                                      *)
(***************************************************************************)

\* How many fingerprint errors one circuit records.
MaxErrors == 2

OnlyTor ==
    UNCHANGED <<uniVars, permVars, storeVars, mgrVars, entVars, dashVars, uxVars,
                boxVars, tplVars, rollVars, frames>>

\* TorController.enable
enable(transport_preference) ==
    /\ tor_enabled' = TRUE
    /\ progress_index' = next_progress
    /\ active_transport' = select_transport(transport_preference)
    /\ ret' = Returned("enable")
    /\ UNCHANGED <<circuits, guard_cursor>>
    /\ OnlyTor

\* TorController.isolate_stream
isolate_stream(container) ==
    /\ IF container \in DOMAIN circuits
       THEN /\ ret' = [op |-> "isolate_stream", val |-> circuits[container]]
            /\ UNCHANGED <<circuits, guard_cursor>>
       ELSE /\ circuits' = dict_set(circuits, container, new_circuit(container))
            /\ guard_cursor' = (guard_cursor + 1) % Len(guard_nodes)
            /\ ret' = [op |-> "isolate_stream", val |-> new_circuit(container)]
    /\ UNCHANGED <<tor_enabled, progress_index, active_transport>>
    /\ OnlyTor

\* TorController.mark_fingerprint_error: the circuit isolate_stream returns,
\* created with the cycle's next guard when the container has none, and the
\* unhealthy circuit that replaces it, built with the guard after that.
mark_fingerprint_error(container) ==
    LET tracked == container \in DOMAIN circuits
        circuit == IF tracked THEN circuits[container] ELSE new_circuit(container)
        cursor == IF tracked THEN guard_cursor
                  ELSE (guard_cursor + 1) % Len(guard_nodes)
        rotated == [container |-> container,
                    guard_node |-> guard_nodes[cursor + 1],
                    healthy |-> FALSE,
                    fingerprint_errors |-> circuit.fingerprint_errors + 1]
    IN  /\ circuit.fingerprint_errors < MaxErrors
        /\ circuits' = dict_set(circuits, container, rotated)
        /\ guard_cursor' = (cursor + 1) % Len(guard_nodes)
        /\ ret' = [op |-> "mark_fingerprint_error", val |-> rotated]
        /\ UNCHANGED <<tor_enabled, progress_index, active_transport>>
        /\ OnlyTor

TransportPreferences == {NoPreference, "snowflake", "meek"}

NextTor ==
    \/ \E preference \in TransportPreferences : enable(preference)
    \/ \E container \in Containers : isolate_stream(container)
    \/ \E container \in Containers : mark_fingerprint_error(container)

\* C31 as stated: mark_fingerprint_error(container) replaces the container's
\* circuit by an unhealthy circuit whose guard node differs from the guard
\* node of the circuit it replaces, with fingerprint_errors one higher,
\* whatever isolate_stream and mark_fingerprint_error calls for other
\* containers came before.
C31_RotationChangesGuard ==
    [][ \A container \in Containers :
          (mark_fingerprint_error(container) /\ container \in DOMAIN circuits)
          => /\ ~circuits'[container].healthy
             /\ circuits'[container].fingerprint_errors
                  = circuits[container].fingerprint_errors + 1
             /\ circuits'[container].guard_node # circuits[container].guard_node
      ]_vars

(***************************************************************************)
(* Staged rollout: FeatureFlag, RolloutController                           *)
(***************************************************************************)

Features == {"privacy-ci", "tor-mode"}
Cohorts == {"stable", "canary"}
Users == {"user123", "user456"}
\* cohort=None
NoCohort == ""

OnlyRollout ==
    UNCHANGED <<uniVars, permVars, storeVars, mgrVars, entVars, dashVars, uxVars,
                boxVars, tplVars, torVars, frames>>

\* FeatureFlag(name=name, enabled=..., cohort=...)
FeatureFlag(name, enabled, cohort) ==
    [name |-> name, enabled |-> enabled, cohort |-> cohort]

\* RolloutController.register_feature
register_feature(name, cohort) ==
    /\ flags' = dict_set(flags, name, FeatureFlag(name, FALSE, cohort))
    /\ ret' = Returned("register_feature")
    /\ UNCHANGED <<kill_switches, canary_cohorts>>
    /\ OnlyRollout

\* RolloutController.enable_feature
enable_feature(name, cohort) ==
    LET flag == IF name \in DOMAIN flags THEN flags[name]
                ELSE FeatureFlag(name, FALSE, "stable")
        placed == IF cohort # NoCohort THEN [flag EXCEPT !.cohort = cohort]
                  ELSE flag
    IN  /\ flags' = dict_set(flags, name, [placed EXCEPT !.enabled = TRUE])
        /\ ret' = Returned("enable_feature")
        /\ UNCHANGED <<kill_switches, canary_cohorts>>
        /\ OnlyRollout

\* RolloutController.disable_feature
disable_feature(name) ==
    /\ flags' = IF name \in DOMAIN flags
                THEN [flags EXCEPT ![name].enabled = FALSE]
                ELSE flags
    /\ ret' = Returned("disable_feature")
    /\ UNCHANGED <<kill_switches, canary_cohorts>>
    /\ OnlyRollout

\* RolloutController.kill_switch
kill_switch(name) ==
    /\ kill_switches' = kill_switches \cup {name}
    /\ ret' = Returned("kill_switch")
    /\ UNCHANGED <<flags, canary_cohorts>>
    /\ OnlyRollout

\* RolloutController.assign_cohort
assign_cohort(user_id, cohort) ==
    /\ canary_cohorts' = dict_set(canary_cohorts, user_id, cohort)
    /\ ret' = Returned("assign_cohort")
    /\ UNCHANGED <<flags, kill_switches>>
    /\ OnlyRollout

\* evaluate without the test of the kill switches.
evaluation_without_switch(user_id, feature) ==
    IF feature \notin DOMAIN flags \/ ~flags[feature].enabled THEN FALSE
    ELSE LET cohort == IF user_id \in DOMAIN canary_cohorts
                       THEN canary_cohorts[user_id] ELSE "stable"
         IN  cohort = flags[feature].cohort \/ flags[feature].cohort = "stable"
\* What RolloutController.evaluate returns.
evaluation(user_id, feature) ==
    IF feature \in kill_switches THEN FALSE
    ELSE IF feature \notin DOMAIN flags \/ ~flags[feature].enabled THEN FALSE
    ELSE LET cohort == IF user_id \in DOMAIN canary_cohorts
                       THEN canary_cohorts[user_id] ELSE "stable"
         IN  cohort = flags[feature].cohort \/ flags[feature].cohort = "stable"

\* RolloutController.evaluate
evaluate(user_id, feature) ==
    /\ ret' = [op |-> "evaluate", val |-> evaluation(user_id, feature)]
    /\ UNCHANGED rollVars
    /\ OnlyRollout

InitRollout ==
    /\ flags = EmptyDict
    /\ kill_switches = {}
    /\ canary_cohorts = EmptyDict

NextRollout ==
    \/ \E name \in Features, cohort \in Cohorts : register_feature(name, cohort)
    \/ \E name \in Features, cohort \in Cohorts \cup {NoCohort} :
           enable_feature(name, cohort)
    \/ \E name \in Features : disable_feature(name)
    \/ \E name \in Features : kill_switch(name)
    \/ \E user_id \in Users, cohort \in Cohorts : assign_cohort(user_id, cohort)
    \/ \E user_id \in Users, feature \in Features : evaluate(user_id, feature)

\* C30: once kill_switch(feature) has been called the feature stays in the
\* kill switches, whatever register_feature, enable_feature, disable_feature
\* or assign_cohort calls follow, and evaluate(user, feature) returns false
\* for every user.
C30_KillSwitchIsFinal ==
    [][ /\ \A feature \in Features : kill_switch(feature) => feature \in kill_switches'
        /\ \A feature \in kill_switches :
              /\ feature \in kill_switches'
              /\ \A user_id \in Users :
                    /\ ~evaluation(user_id, feature)'
                    /\ evaluate(user_id, feature)
                         => ret' = [op |-> "evaluate", val |-> FALSE]
      ]_vars

\* evaluate has just returned false for a killed feature whose flag is
\* enabled for the canary cohort and a user of that cohort, while the other
\* feature, not killed, evaluates to true for the same user.
C30_Witness ==
    /\ ret = [op |-> "evaluate", val |-> FALSE]
    /\ \E feature \in kill_switches, user_id \in DOMAIN canary_cohorts :
          /\ feature \in DOMAIN flags
          /\ flags[feature].enabled
          /\ flags[feature].cohort = "canary"
          /\ canary_cohorts[user_id] = "canary"
          /\ \E other \in Features \ kill_switches : evaluation(user_id, other)

Init ==
    /\ InitUniformity
    /\ InitPermissions
    /\ InitStore
    /\ InitManager
    /\ InitEntropy
    /\ InitDashboard
    /\ InitContainers
    /\ InitSandbox
    /\ InitTemplates
    /\ InitTor
    /\ InitRollout
    /\ InitFrames
    /\ ret = Returned("init")

NextPermissions ==
    \/ \E origin \in Origins, permission \in Permissions,
           duration \in Durations, one_time \in BOOLEAN, utcnow \in Times :
           request_permission(origin, permission, duration, one_time, utcnow)
    \/ \E origin \in Origins, permission \in Permissions, when \in Times :
           use_permission(origin, permission, when)
    \/ \E now \in Times : revoke_unused(now)
    \/ \E origin \in Origins : close_tab(origin)

\* A permission manager over a policy engine built in any of its modes.
InitAnyMode ==
    /\ InitUniformity
    /\ \E mode \in ComplianceModes : InitPermissionsIn(mode)
    /\ InitStore
    /\ InitManager
    /\ InitEntropy
    /\ InitDashboard
    /\ InitContainers
    /\ InitSandbox
    /\ InitTemplates
    /\ InitTor
    /\ InitRollout
    /\ InitFrames
    /\ ret = Returned("init")

SpecPermissions == InitAnyMode /\ [][NextPermissions]_vars

(***************************************************************************)
(* PermissionManager under concurrent callers. The manager holds no lock,   *)
(* so use_permission and the scan of revoke_unused are taken statement by    *)
(* statement; request_permission, close_tab and an uninterrupted             *)
(* revoke_unused run between those statements.                               *)
(***************************************************************************)

\* grant = self.grants.get(origin, {}).get(permission)
\* if not grant or not grant.active: return False
use_lookup(caller, origin, permission, when) ==
    LET found == get_grant(grants, origin, permission) IN
    /\ frames[caller].pc = "idle"
    /\ IF found = <<>> \/ ~found[1].active
       THEN /\ ret' = [op |-> "use_permission", val |-> FALSE]
            /\ UNCHANGED frames
       ELSE /\ frames' = [frames EXCEPT ![caller] =
                            [pc |-> "found", origin |-> origin,
                             permission |-> permission, when |-> when]]
            /\ UNCHANGED ret
    /\ UNCHANGED permVars
    /\ OnlyPermissionsStep

\* grant.mark_used(when)
use_mark(caller) ==
    LET frame == frames[caller] IN
    /\ frame.pc = "found"
    /\ grants' = mark_used(grants, frame.origin, frame.permission, frame.when)
    /\ frames' = [frames EXCEPT ![caller].pc = "marked"]
    /\ UNCHANGED <<compliance_mode, audit_events, exposure_log, ret>>
    /\ OnlyPermissionsStep

\* self.exposure_log.append({... grant.last_used.isoformat()}); return True
use_log(caller) ==
    LET frame == frames[caller] IN
    /\ frame.pc = "marked"
    /\ Len(exposure_log) < MaxLog
    /\ exposure_log' = Append(exposure_log,
           [origin |-> frame.origin, permission |-> frame.permission,
            timestamp |-> get_grant(grants, frame.origin, frame.permission)[1].last_used])
    /\ ret' = [op |-> "use_permission", val |-> TRUE]
    /\ frames' = [frames EXCEPT ![caller] = idle]
    /\ UNCHANGED <<compliance_mode, audit_events, grants>>
    /\ OnlyPermissionsStep

\* len() of the inner dict of the origin at position i of the snapshot, taken
\* when the inner loop's iterator is created; 0 past the snapshot's end.
inner_size(gs, snapshot, i) ==
    IF i > Len(snapshot) THEN 0
    ELSE Len(gs[origin_index(gs, snapshot[i])].perms)

\* now = now or datetime.utcnow(); list(self.grants.items()), and the
\* iterator over the first origin's inner dict.
scan_start(caller, now) ==
    LET snapshot == [i \in 1..Len(grants) |-> grants[i].origin] IN
    /\ frames[caller].pc = "idle"
    /\ frames' = [frames EXCEPT ![caller] =
                     [pc |-> "scan", now |-> now, snapshot |-> snapshot,
                      i |-> 1, j |-> 1,
                      size |-> inner_size(grants, snapshot, 1)]]
    /\ UNCHANGED <<permVars, ret>>
    /\ OnlyPermissionsStep

\* One turn of the loops of revoke_unused: the inner iterator's next(),
\* which raises RuntimeError when the dict's size changed since the iterator
\* was created, and the loop body for the grant it yields.
scan_step(caller) ==
    LET frame == frames[caller] IN
    /\ frame.pc = "scan"
    /\ IF frame.i > Len(frame.snapshot)
       THEN /\ ret' = Returned("revoke_unused")
            /\ frames' = [frames EXCEPT ![caller] = idle]
            /\ UNCHANGED permVars
       ELSE LET i == origin_index(grants, frame.snapshot[frame.i])
                perms == grants[i].perms
            IN  IF Len(perms) # frame.size
                THEN /\ ret' = Raised("revoke_unused",
                                      "dictionary changed size during iteration")
                     /\ frames' = [frames EXCEPT ![caller] = idle]
                     /\ UNCHANGED permVars
                ELSE IF frame.j > Len(perms)
                THEN /\ frames' = [frames EXCEPT
                           ![caller].i = frame.i + 1,
                           ![caller].j = 1,
                           ![caller].size =
                               inner_size(grants, frame.snapshot, frame.i + 1)]
                     /\ UNCHANGED <<permVars, ret>>
                ELSE /\ frames' = [frames EXCEPT ![caller].j = frame.j + 1]
                     /\ IF idle_too_long(perms[frame.j], frame.now)
                        THEN /\ Len(exposure_log) < MaxLog
                             /\ grants' = [grants EXCEPT
                                              ![i].perms[frame.j].active = FALSE]
                             /\ exposure_log' = Append(exposure_log,
                                    [origin |-> grants[i].origin,
                                     permission |-> perms[frame.j].permission,
                                     reason |-> "auto-revoked"])
                             /\ UNCHANGED <<compliance_mode, audit_events, ret>>
                        ELSE UNCHANGED <<permVars, ret>>
    /\ OnlyPermissionsStep

\* No caller is between the statements of use_permission, which holds a
\* reference to the grant object it looked up.
no_use_in_progress ==
    \A caller \in Callers : frames[caller].pc \notin {"found", "marked"}

\* The callback that uses permissions and the one that sweeps idle grants.
user == "tab-1"
sweeper == "tab-2"

\* Requests are made at time 0 with a session prompt; uses and sweeps take
\* any time.
NextPermissionsConcurrent ==
    \/ \E origin \in Origins, permission \in Permissions :
           /\ no_use_in_progress
           /\ request_permission(origin, permission, "session", FALSE, 0)
    \/ \E origin \in Origins, permission \in Permissions, when \in Times :
           use_lookup(user, origin, permission, when)
    \/ use_mark(user)
    \/ use_log(user)
    \/ \E now \in Times : scan_start(sweeper, now)
    \/ scan_step(sweeper)
    \/ \E origin \in Origins : close_tab(origin)

SpecPermissionsConcurrent == Init /\ [][NextPermissionsConcurrent]_vars

SpecUniformity == Init /\ [][NextUniformity]_vars

(***************************************************************************)
(* ExtensionPlatform: the store, the manager and the sandbox monitor of    *)
(* one platform object.                                                    *)
(***************************************************************************)

\* What dict.get returns for a missing key, as a record so that it compares
\* with packages.
no_package == [identifier |-> "None"]

\* ExtensionStore.get
get(identifier) ==
    IF identifier \in DOMAIN extensions THEN extensions[identifier]
    ELSE no_package

\* ExtensionPlatform.enable_for_container: store.get, then manager.install,
\* whose error leaves the sandbox alone, then sandbox.set_budget with the
\* default ResourceBudget.
enable_for_container(container, extension_id) ==
    IF get(extension_id) = no_package
    THEN /\ ret' = Raised("enable_for_container", "unknown-extension")
         /\ UNCHANGED <<mgrVars, boxVars>>
         /\ UNCHANGED <<uniVars, permVars, storeVars, entVars, dashVars, uxVars,
                        tplVars, torVars, rollVars, frames>>
    ELSE LET package == get(extension_id)
             with == policies_with(container)
             policy == with[container]
             id == package.identifier
         IN  /\ IF id \in policy.denylist
                THEN /\ ret' = Raised("enable_for_container", "extension-denied")
                     /\ policies' = with
                     /\ UNCHANGED <<active_extensions, boxVars>>
                ELSE IF policy.allowlist # {} /\ id \notin policy.allowlist
                THEN /\ ret' = Raised("enable_for_container",
                                      "extension-not-allowlisted")
                     /\ policies' = with
                     /\ UNCHANGED <<active_extensions, boxVars>>
                ELSE /\ policies' =
                           written(with, objects_with(container), container,
                                   [policy EXCEPT !.gated_permissions =
                                       dict_set(@, id, gate(package.manifest))])
                     /\ active_extensions' =
                           dict_set(active_extensions, container,
                                    IF contains(installed_for(container), id)
                                    THEN installed_for(container)
                                    ELSE Append(installed_for(container), id))
                     /\ budgets' = dict_set(budgets, extension_id, default_budget)
                     /\ sandbox_usage' = usage_with(extension_id)
                     /\ UNCHANGED alerts
                     /\ ret' = Returned("enable_for_container")
             /\ policy_object' = objects_with(container)
             /\ UNCHANGED <<uniVars, permVars, storeVars, entVars, dashVars,
                            uxVars, tplVars, torVars, rollVars, frames>>

\* For each identifier a package that passes every stage of publish and one
\* package failing each stage: unsigned, without name, with a differing
\* build, and with build_hash and reference_hash both empty.
PlatformPackages ==
    {package \in Packages :
        /\ package.manifest.permissions = <<"tabs", "clipboard">>
        /\ package.manifest.version = "1.0.0"
        /\ Cardinality({package.signature = "",
                        package.manifest.name = "",
                        package.build_hash # "abc123"} \ {FALSE}) <= 1
        /\ (package.signature = "" \/ package.manifest.name = "")
           => package.build_hash = "abc123"}

\* The policy calls made through platform.manager are made for one container.
NextPlatform ==
    \/ \E package \in PlatformPackages : publish(package)
    \/ \E container \in Containers, extension_id \in Identifiers :
           enable_for_container(container, extension_id)
    \/ \E extension_id \in Identifiers : allow_extension("alpha", extension_id)
    \/ \E extension_id \in Identifiers : deny_extension("alpha", extension_id)

SpecPlatform == Init /\ [][NextPlatform]_vars

SpecStore == Init /\ [][NextStore]_vars

SpecManager == Init /\ [][NextManager]_vars

\* A call of ExtensionManager.is_allowed: policies.get with a default does
\* not add the container to the dict.
call_is_allowed(container, extension_id) ==
    /\ ret' = [op |-> "is_allowed", val |-> is_allowed(container, extension_id)]
    /\ UNCHANGED mgrVars
    /\ OnlyManager

NextManagerQueries ==
    \/ \E container \in Containers, extension_id \in Identifiers :
           allow_extension(container, extension_id)
    \/ \E container \in Containers, extension_id \in Identifiers :
           deny_extension(container, extension_id)
    \/ \E container \in Containers, package \in InstallPackages :
           install(container, package)
    \/ \E source \in Containers, target \in Containers :
           clone_policy(source, target)
    \/ \E container \in Containers, extension_id \in Identifiers :
           call_is_allowed(container, extension_id)

SpecManagerQueries == Init /\ [][NextManagerQueries]_vars

SpecEntropy == Init /\ [][NextEntropy]_vars

SpecEntropyConcurrent == Init /\ [][NextEntropyConcurrent]_vars

SpecContainers == Init /\ [][NextContainers]_vars

SpecRollout == Init /\ [][NextRollout]_vars

SpecTor == Init /\ [][NextTor]_vars

SpecDashboardContainers == Init /\ [][NextDashboardContainers]_vars

SpecSandbox == Init /\ [][NextSandbox]_vars

\* A dashboard in a process with any salt for str hashes.
InitAnyHash ==
    /\ InitUniformity
    /\ InitPermissions
    /\ InitStore
    /\ InitManager
    /\ InitEntropy
    /\ randomized = EmptyDict
    /\ container_origins = EmptyDict
    /\ last_device_class = EmptyDict
    /\ hash_value \in [NavigationOrigins -> HashValues]
    /\ InitContainers
    /\ InitSandbox
    /\ InitTemplates
    /\ InitTor
    /\ InitRollout
    /\ InitFrames
    /\ ret = Returned("init")

SpecDashboard == InitAnyHash /\ [][NextDashboard]_vars

(***************************************************************************)
(* Permission grant lifecycle                                               *)
(***************************************************************************)

Pairs == Origins \X Permissions

has_grant(gs, origin, permission) == get_grant(gs, origin, permission) # <<>>

the_grant(gs, origin, permission) == get_grant(gs, origin, permission)[1]

is_active(gs, origin, permission) ==
    has_grant(gs, origin, permission) /\ the_grant(gs, origin, permission).active

\* The pair has an exposure-log entry that records a revocation.
was_revoked(origin, permission) ==
    \E k \in 1..Len(exposure_log) :
        /\ "reason" \in DOMAIN exposure_log[k]
        /\ exposure_log[k].origin = origin
        /\ exposure_log[k].permission = permission

\* C2 as stated: use_permission, revoke_unused and close_tab never turn a
\* stored grant's active flag from false to true, and a pair whose grant has
\* been revoked is never again reported by active_permissions.
C2_RevokedPairNeverActiveAgain ==
    [][ /\ ( \/ \E o \in Origins, p \in Permissions, when \in Times :
                   use_permission(o, p, when)
             \/ \E now \in Times : revoke_unused(now)
             \/ \E o \in Origins : close_tab(o) )
           => \A pair \in Pairs :
                 (has_grant(grants, pair[1], pair[2])
                    /\ ~is_active(grants, pair[1], pair[2]))
                 => ~is_active(grants', pair[1], pair[2])
        /\ \A pair \in Pairs :
              was_revoked(pair[1], pair[2]) => pair[2] \notin active_permissions(pair[1])'
      ]_vars

\* C2 as amended: a pair whose stored grant is inactive (denied or revoked)
\* becomes active only by a request_permission call for that same pair, which
\* stores a new grant; use_permission, revoke_unused and close_tab never
\* re-activate it.
C2_InactiveUntilRequestedAgain ==
    [][ \A pair \in Pairs :
          ( /\ has_grant(grants, pair[1], pair[2])
            /\ ~is_active(grants, pair[1], pair[2])
            /\ is_active(grants', pair[1], pair[2]) )
          => \E duration \in Durations, one_time \in BOOLEAN, utcnow \in Times :
                request_permission(pair[1], pair[2], duration, one_time, utcnow)
      ]_vars

\* A revoked grant on which use_permission was then tried and refused.
C2_Witness ==
    \E pair \in Pairs :
        /\ was_revoked(pair[1], pair[2])
        /\ has_grant(grants, pair[1], pair[2])
        /\ ~is_active(grants, pair[1], pair[2])
        /\ ret.op = "use_permission"
        /\ ret.val = FALSE

\* C3 as stated: after close_tab(origin) every grant of that origin that was
\* active and one_time is inactive, whatever made it one-time.
C3_CloseTabDeactivatesEveryOneTimeGrant ==
    [][ \A o \in Origins :
          close_tab(o) =>
            \A p \in Permissions :
              (is_active(grants, o, p) /\ the_grant(grants, o, p).one_time)
              => ~is_active(grants', o, p)
      ]_vars

\* C4: close_tab(origin) leaves every grant that is not one_time, and every
\* grant of another origin, exactly as it was; a grant that is not one_time
\* stops being active only in a revoke_unused(now) call with
\* now - last_used > idle_timeout.
C4_CloseTabFrame ==
    [][ /\ \A o \in Origins :
              close_tab(o) =>
                \A pair \in Pairs :
                  ( /\ has_grant(grants, pair[1], pair[2])
                    /\ \/ ~the_grant(grants, pair[1], pair[2]).one_time
                       \/ pair[1] # o )
                  => get_grant(grants', pair[1], pair[2])
                       = get_grant(grants, pair[1], pair[2])
        /\ \A pair \in Pairs :
              ( /\ is_active(grants, pair[1], pair[2])
                /\ ~the_grant(grants, pair[1], pair[2]).one_time
                /\ ~is_active(grants', pair[1], pair[2]) )
              => \E now \in Times :
                    /\ revoke_unused(now)
                    /\ now - the_grant(grants, pair[1], pair[2]).last_used > IdleTimeout
      ]_vars

\* A tab was closed, which revoked one grant of the origin and left a grant
\* of the same origin that is not one_time active.
C4_Witness ==
    /\ ret.op = "close_tab"
    /\ \E o \in Origins, p \in Permissions, q \in Permissions :
          /\ Len(exposure_log) > 0
          /\ exposure_log[Len(exposure_log)]
               = [origin |-> o, permission |-> p, reason |-> "tab-closed"]
          /\ is_active(grants, o, q)
          /\ ~the_grant(grants, o, q).one_time

\* The pairs revoke_unused(now) has to deactivate.
due_for_revocation(now) ==
    {pair \in Pairs :
        /\ is_active(grants, pair[1], pair[2])
        /\ now - the_grant(grants, pair[1], pair[2]).last_used > IdleTimeout}

\* C5: revoke_unused(now) deactivates exactly the active grants, of any
\* origin, with now - last_used > idle_timeout (a grant idle for exactly
\* idle_timeout stays active), changes no other grant, and appends one
\* "auto-revoked" exposure-log entry per deactivated grant.
C5_RevokeUnusedExact ==
    [][ \A now \in Times :
          revoke_unused(now) =>
            LET due == due_for_revocation(now)
                old == Len(exposure_log)
            IN  /\ \A pair \in Pairs :
                      get_grant(grants', pair[1], pair[2])
                        = IF pair \in due
                          THEN <<[the_grant(grants, pair[1], pair[2])
                                    EXCEPT !.active = FALSE]>>
                          ELSE get_grant(grants, pair[1], pair[2])
                /\ Len(exposure_log') = old + Cardinality(due)
                /\ SubSeq(exposure_log', 1, old) = exposure_log
                /\ \A pair \in due :
                      Cardinality({k \in (old + 1)..Len(exposure_log') :
                          exposure_log'[k] = [origin |-> pair[1],
                                              permission |-> pair[2],
                                              reason |-> "auto-revoked"]}) = 1
      ]_vars

\* revoke_unused ran at the latest time: it revoked a grant last used at 0
\* and kept a grant that had been idle for exactly idle_timeout.
C5_Witness ==
    /\ ret.op = "revoke_unused"
    /\ \E pair \in Pairs, kept \in Pairs :
          /\ Len(exposure_log) > 0
          /\ exposure_log[Len(exposure_log)]
               = [origin |-> pair[1], permission |-> pair[2], reason |-> "auto-revoked"]
          /\ the_grant(grants, pair[1], pair[2]).last_used = MaxTime - IdleTimeout - 1
          /\ is_active(grants, kept[1], kept[2])
          /\ the_grant(grants, kept[1], kept[2]).last_used = MaxTime - IdleTimeout

(***************************************************************************)
(* Entropy budget                                                           *)
(***************************************************************************)

\* The budget-exceeded events of a log.
exceeded_in(log) ==
    SelectSeq(log, LAMBDA entry : entry.event = "budget-exceeded")

\* C9: consume(api, bits) returns false exactly when the grand total over
\* all APIs, after adding bits to the API's tally, exceeds limit_bits; the
\* bits are added to the tally in both cases and no other tally changes;
\* a false return appends exactly one budget-exceeded event to the devtools
\* log and to the telemetry log, a true return appends none.
C9_ConsumeContract ==
    [][ \A api \in Apis, bits \in BitChoices :
          consume(api, bits) =>
            LET exceeded == total_bits + bits > limit_bits
                added == IF exceeded THEN 1 ELSE 0
            IN  /\ ret'.val = ~exceeded
                /\ usage_of(api)' = usage_of(api) + bits
                /\ \A other \in Apis \ {api} : usage_of(other)' = usage_of(other)
                /\ total_bits' = total_bits + bits
                /\ Len(exceeded_in(devtools_events'))
                     = Len(exceeded_in(devtools_events)) + added
                /\ Len(exceeded_in(telemetry_events'))
                     = Len(exceeded_in(telemetry_events)) + added
                /\ Len(devtools_events') = Len(devtools_events) + 1 + added
                /\ Len(telemetry_events') = Len(telemetry_events) + added
      ]_vars

\* A consume that brought the total exactly to the limit returned true and
\* the next one returned false, with the exceeding bits kept in the tally.
C9_Witness ==
    /\ ret = [op |-> "consume", val |-> FALSE]
    /\ total_bits > limit_bits
    /\ \E k \in 1..Len(devtools_events) :
          /\ devtools_events[k].event = "consume"
          /\ devtools_events[k].total = limit_bits
    /\ Len(telemetry_events) = 1

\* C24 as stated: in every state reachable by consume and reset calls,
\* consume taking any integer bits, total_bits() and every per-API tally are
\* greater than or equal to 0.
C24_TotalsNeverNegative ==
    /\ total_bits >= 0
    /\ \A api \in DOMAIN usage : usage[api] >= 0

\* C25 as stated: when two callers of consume on the same EntropyBudget
\* interleave between reading an API's tally, writing it back and computing
\* the total, no update is lost (once both have returned, the total equals
\* the sum of all bits consumed) and no call returns true in a state where
\* the total exceeds the limit.
C25_ConcurrentConsumeCannotRace ==
    [][ /\ (\A caller \in Callers : frames'[caller].pc = "returned")
           => total_bits' = sum_values([caller \in Callers |-> frames'[caller].bits])
        /\ \A caller \in Callers :
              (consume_return(caller) /\ ret'.val = TRUE)
              => total_bits' <= limit_bits
      ]_vars

(***************************************************************************)
(* Dashboard navigation                                                     *)
(***************************************************************************)

\* C10: right after record_navigation(container, url) the entropy_bits of
\* status_for_container(container) is 0 and both event logs are empty,
\* whatever was consumed before; after reset() total_bits() is 0.
C10_NavigationResetsBudget ==
    [][ /\ \A container \in Containers, url \in Urls :
             record_navigation(container, url) =>
               /\ status(container)'.entropy_bits = 0
               /\ devtools_events' = <<>>
               /\ telemetry_events' = <<>>
        /\ reset => total_bits' = 0
      ]_vars

\* A navigation has just been recorded, the budget reads 0, and both
\* containers have navigated, to origins in both device buckets.
C10_Witness ==
    /\ ret = Returned("record_navigation")
    /\ total_bits = 0
    /\ DOMAIN container_origins = Containers
    /\ DOMAIN randomized = {0, 1}

\* C11 as stated: entropy usage is accounted per container, so that
\* record_navigation(c1, url) leaves the entropy_bits status_for_container
\* reports for any other container c2 as it was.
C11_NavigationResetsOnlyOwnContainer ==
    [][ \A c1 \in Containers, url \in Urls :
          record_navigation(c1, url) =>
            \A c2 \in Containers \ {c1} :
               status(c2)'.entropy_bits = status(c2).entropy_bits
      ]_vars

(***************************************************************************)
(* Device randomizer                                                        *)
(***************************************************************************)

\* C12: window ids a and b with a div stability_window = b div
\* stability_window get identical device classes from randomize, in any
\* order of calls and under any interleaving with calls for other buckets
\* (direct calls and those of record_navigation); a cached bucket's device
\* class never changes and is never dropped.
C12_BucketStability ==
    [][ /\ \A a \in WindowIds :
             device_randomizer_randomize(a) =>
               \A b \in WindowIds :
                  (a \div stability_window = b \div stability_window)
                  => /\ randomize_result(b)' = ret'.val
                     /\ \A c \in WindowIds :
                           (c \div stability_window = b \div stability_window
                            /\ c \div stability_window \in DOMAIN randomized)
                           => ret'.val = randomized[c \div stability_window]
        /\ \A bucket \in DOMAIN randomized :
              /\ bucket \in DOMAIN randomized'
              /\ randomized'[bucket] = randomized[bucket]
      ]_vars

\* randomize has just returned the device class of bucket 0 while bucket 1
\* is cached as well, with a different class.
C12_Witness ==
    /\ ret.op = "randomize"
    /\ DOMAIN randomized = {0, 1}
    /\ ret.val = randomized[0]
    /\ randomized[0] # randomized[1]

(***************************************************************************)
(* Permission requests                                                      *)
(***************************************************************************)

\* C19: the one_time flag of the grant request_permission returns is true
\* exactly when the one_time argument is true, or the permission is one of
\* camera, microphone, geolocation, or the prompt's duration is "once".
C19_OneTimeFlag ==
    [][ \A origin \in Origins, permission \in Permissions,
           duration \in Durations, one_time \in BOOLEAN, utcnow \in Times :
          request_permission(origin, permission, duration, one_time, utcnow)
          => ( ret'.val.one_time
                 <=> ( \/ one_time
                       \/ permission \in {"camera", "microphone", "geolocation"}
                       \/ duration = "once" ) )
      ]_vars

\* A camera grant requested for the session, without the one_time argument,
\* came back one-time, and a clipboard grant requested the same way is
\* stored as not one-time.
C19_Witness ==
    /\ ret.op = "request_permission"
    /\ ret.val.permission = "camera"
    /\ ret.val.duration = "session"
    /\ ret.val.one_time
    /\ \E origin \in Origins :
          /\ has_grant(grants, origin, "clipboard")
          /\ the_grant(grants, origin, "clipboard").duration = "session"
          /\ ~the_grant(grants, origin, "clipboard").one_time

\* C20: request_permission stores under (origin, permission), replacing any
\* prior grant of the pair and leaving every other pair's grant alone, the
\* grant it returns, whose active and granted flags both equal the policy
\* decision (the permission is not in the deny set of the compliance mode);
\* every active stored grant is a granted one; and use_permission returns
\* false for a pair whose stored grant was denied.
C20_StoredGrantFollowsPolicy ==
    [][ /\ \A origin \in Origins, permission \in Permissions,
              duration \in Durations, one_time \in BOOLEAN, utcnow \in Times :
             request_permission(origin, permission, duration, one_time, utcnow)
             => LET decision == permission \notin rules[compliance_mode].deny IN
                /\ ret'.val.active = decision
                /\ ret'.val.granted = decision
                /\ get_grant(grants', origin, permission) = <<ret'.val>>
                /\ \A pair \in Pairs \ {<<origin, permission>>} :
                      get_grant(grants', pair[1], pair[2])
                        = get_grant(grants, pair[1], pair[2])
        /\ \A pair \in Pairs :
              is_active(grants', pair[1], pair[2])
              => the_grant(grants', pair[1], pair[2]).granted
        /\ \A origin \in Origins, permission \in Permissions, when \in Times :
              ( /\ use_permission(origin, permission, when)
                /\ has_grant(grants, origin, permission)
                /\ ~the_grant(grants, origin, permission).granted )
              => ret'.val = FALSE
      ]_vars

\* use_permission has just returned false for a pair whose request the
\* policy denied, while a granted pair of the same origin is active.
C20_Witness ==
    /\ ret = [op |-> "use_permission", val |-> FALSE]
    /\ \E origin \in Origins :
          /\ has_grant(grants, origin, "clipboard")
          /\ ~the_grant(grants, origin, "clipboard").granted
          /\ ~the_grant(grants, origin, "clipboard").active
          /\ is_active(grants, origin, "camera")

(***************************************************************************)
(* Permission use and the audit log                                         *)
(***************************************************************************)

\* C21: use_permission returns false and changes neither the grants nor the
\* exposure log when the pair has no grant or its grant is inactive;
\* otherwise it returns true, sets the grant's last_used to the time of the
\* use, leaves every other field and every other grant alone, and appends
\* exactly one exposure-log entry for the pair.
C21_UsePermissionContract ==
    [][ \A origin \in Origins, permission \in Permissions, when \in Times :
          use_permission(origin, permission, when)
          => IF ~is_active(grants, origin, permission)
             THEN /\ ret'.val = FALSE
                  /\ grants' = grants
                  /\ exposure_log' = exposure_log
             ELSE /\ ret'.val = TRUE
                  /\ the_grant(grants', origin, permission)
                       = [the_grant(grants, origin, permission)
                            EXCEPT !.last_used = when]
                  /\ \A pair \in Pairs \ {<<origin, permission>>} :
                        get_grant(grants', pair[1], pair[2])
                          = get_grant(grants, pair[1], pair[2])
                  /\ Len(exposure_log') = Len(exposure_log) + 1
                  /\ SubSeq(exposure_log', 1, Len(exposure_log)) = exposure_log
                  /\ exposure_log'[Len(exposure_log')]
                       = [origin |-> origin, permission |-> permission,
                          timestamp |-> when]
      ]_vars

\* A use has just succeeded at time MaxTime: the grant carries that time and
\* the log ends with the entry of the use, while another grant of the same
\* origin is inactive and has no entry of a use.
C21_Witness ==
    /\ ret = [op |-> "use_permission", val |-> TRUE]
    /\ Len(exposure_log) > 0
    /\ LET last == exposure_log[Len(exposure_log)] IN
       /\ "timestamp" \in DOMAIN last
       /\ last.timestamp = MaxTime
       /\ the_grant(grants, last.origin, last.permission).last_used = MaxTime
       /\ \E permission \in Permissions \ {last.permission} :
             /\ has_grant(grants, last.origin, permission)
             /\ ~is_active(grants, last.origin, permission)

\* C22: the allow call inside request_permission decides true exactly when
\* the permission is not in the deny set of the active compliance mode, and
\* appends exactly one audit record {origin, permission, mode, allowed},
\* whether it allowed or denied; no other step touches the audit log, so
\* records are never modified or removed and the log has one record per
\* allow call.
C22_AllowAudits ==
    [][ /\ \A origin \in Origins, permission \in Permissions,
              duration \in Durations, one_time \in BOOLEAN, utcnow \in Times :
             request_permission(origin, permission, duration, one_time, utcnow)
             => LET decision == permission \notin rules[compliance_mode].deny IN
                /\ ret'.val.granted = decision
                /\ Len(audit_events') = Len(audit_events) + 1
                /\ SubSeq(audit_events', 1, Len(audit_events)) = audit_events
                /\ audit_events'[Len(audit_events')]
                     = [origin |-> origin, permission |-> permission,
                        mode |-> compliance_mode,
                        allowed |-> IF decision THEN "True" ELSE "False"]
        /\ ret'.op # "request_permission" => audit_events' = audit_events
      ]_vars

\* The audit log holds a denied record followed by an allowed one.
C22_Witness ==
    /\ Len(audit_events) = 2
    /\ audit_events[1].allowed = "False"
    /\ audit_events[2].allowed = "True"
    /\ ret.op # "request_permission"

(***************************************************************************)
(* Permission use against revocation, under concurrent callers              *)
(***************************************************************************)

\* C26 as stated: when use_permission interleaves with revoke_unused or
\* close_tab on the same grant, or request_permission interleaves with a
\* running revoke_unused scan, use_permission never logs an exposure and
\* returns true for a grant that has already been deactivated, and the scan
\* never fails.
C26_UseCannotRaceWithRevocation ==
    [][ /\ use_log(user)
           => is_active(grants, frames[user].origin, frames[user].permission)
        /\ "error" \notin DOMAIN ret'
      ]_vars

(***************************************************************************)
(* Capability gating of dashboard containers                                *)
(***************************************************************************)

\* The APIs a page asks about: the high-entropy ones and one no mask lists.
GateApis == HIGH_ENTROPY_APIS \cup {"canvas"}

\* C27: a container whose current profile has strict_mode set gets false
\* from gate_api for webgl, webgpu, audiocontext and gamepad; any other
\* profile gets the mask entry, and true for an API the mask does not list.
\* A container that ensure_container creates with the research, strict or
\* banking template has strict_mode set, and keeps it until set_uniformity
\* changes its preset.
C27_StrictModeGatesHighEntropy ==
    [][ /\ \A container \in Containers, api \in GateApis :
              LET profile == profile_for(container)' IN
              gate_api(container, api)'
                = IF profile.strict_mode
                     /\ api \in {"webgl", "webgpu", "audiocontext", "gamepad"}
                  THEN FALSE
                  ELSE IF api \in DOMAIN profile.capability_mask
                  THEN profile.capability_mask[api]
                  ELSE TRUE
        /\ \A name \in Containers, template \in {"research", "strict", "banking"},
              locale \in EnsureLocales :
              (ensure_container(name, template, locale) /\ name \notin DOMAIN badges)
              => /\ profile_for(name)'.strict_mode
                 /\ \A api \in HIGH_ENTROPY_APIS : ~gate_api(name, api)'
        /\ \A container \in Containers :
              ( /\ container \in DOMAIN badges
                /\ badges[container].policy.name \in {"research", "strict", "banking"}
                /\ profile_for(container).strict_mode
                /\ ~profile_for(container)'.strict_mode )
              => ret'.op = "set_uniformity"
      ]_vars

\* Container alpha was created with the research template and is gated on
\* every high-entropy API, also after a later ensure_container with another
\* template; container beta has a balanced profile that allows webgl and an
\* API its mask does not list.
C27_Witness ==
    /\ "alpha" \in DOMAIN badges
    /\ badges["alpha"].policy.name = "research"
    /\ container_templates["alpha"] = "shopping"
    /\ profile_for("alpha").strict_mode
    /\ \A api \in HIGH_ENTROPY_APIS : ~gate_api("alpha", api)
    /\ gate_api("alpha", "canvas")
    /\ "beta" \in DOMAIN container_profiles
    /\ ~profile_for("beta").strict_mode
    /\ gate_api("beta", "webgl")
    /\ ~gate_api("beta", "webgpu")
    /\ gate_api("beta", "canvas")

(***************************************************************************)
(* Extension platform: what the store holds and what can be enabled.       *)
(***************************************************************************)

\* C33: in every reachable state each package get(identifier) returns is
\* signed, has no critical static-analysis finding and has a build_hash
\* equal to a non-empty reference_hash; only a successful publish changes
\* what the store holds, and it never removes an identifier; and
\* enable_for_container for an identifier the store does not hold raises
\* unknown-extension and changes nothing.
C33_OnlyValidatedPackagesStored ==
    /\ [](\A identifier \in Identifiers :
            get(identifier) # no_package
            => LET package == get(identifier) IN
               /\ package.identifier = identifier
               /\ package.signature # ""
               /\ ~has_critical(analyze(package.manifest))
               /\ package.manifest.name # ""
               /\ package.manifest.version # ""
               /\ package.manifest.reference_hash # ""
               /\ package.build_hash = package.manifest.reference_hash)
    /\ [][ /\ DOMAIN extensions \subseteq DOMAIN extensions'
           /\ extensions' # extensions => ret' = Returned("publish")
           /\ \A container \in Containers, extension_id \in Identifiers :
                 ( /\ enable_for_container(container, extension_id)
                   /\ extension_id \notin DOMAIN extensions )
                 => /\ ret' = Raised("enable_for_container", "unknown-extension")
                    /\ UNCHANGED <<uniVars, permVars, storeVars, mgrVars,
                                   entVars, dashVars, uxVars, boxVars, tplVars,
                                   torVars, rollVars, frames>>
      ]_vars

\* One identifier is stored and enabled, the other was submitted with both
\* hashes empty, was refused, and enabling it raised unknown-extension.
C33_Witness ==
    /\ ret = Raised("enable_for_container", "unknown-extension")
    /\ \E stored \in Identifiers, refused \in Identifiers :
          /\ stored \in DOMAIN extensions
          /\ contains(installed_for("alpha"), stored)
          /\ refused \notin DOMAIN extensions
          /\ \E package \in DOMAIN review_notes :
                /\ package.identifier = refused
                /\ package.build_hash = ""
                /\ package.manifest.reference_hash = ""

(***************************************************************************)
(* Extension manager: active extensions against the container's policy.    *)
(***************************************************************************)

\* C34 as stated: after any sequence of allow_extension, deny_extension,
\* install and clone_policy calls, each id in installed_for(container) is
\* absent from the container's denylist and satisfies
\* is_allowed(container, id).
C34_ActiveExtensionsArePermitted ==
    \A container \in Containers :
        \A k \in 1..Len(installed_for(container)) :
            /\ installed_for(container)[k] \notin policy_of(container).denylist
            /\ is_allowed(container, installed_for(container)[k])

\* C35: in every reachable policy state, install(container, package)
\* succeeds if and only if is_allowed(container, package.identifier) is true
\* in the state before the call, and refuses with one of the two policy
\* errors otherwise; a call of is_allowed returns that value and changes no
\* state.
C35_InstallAgreesWithIsAllowed ==
    [][ /\ \A container \in Containers, package \in InstallPackages :
             install(container, package)
             => /\ (ret' = Returned("install"))
                     <=> is_allowed(container, package.identifier)
                /\ ~is_allowed(container, package.identifier)
                   => ret' \in {Raised("install", "extension-denied"),
                                Raised("install", "extension-not-allowlisted")}
        /\ \A container \in Containers, extension_id \in Identifiers :
             call_is_allowed(container, extension_id)
             => /\ ret'.val
                     = ( /\ extension_id \notin policy_of(container).denylist
                         /\ \/ policy_of(container).allowlist = {}
                            \/ extension_id \in policy_of(container).allowlist )
                /\ UNCHANGED <<uniVars, permVars, storeVars, mgrVars, entVars,
                               dashVars, uxVars, boxVars, tplVars, torVars,
                               rollVars, frames>>
      ]_vars

\* install was refused for an identifier missing from a non-empty allowlist,
\* for which is_allowed is false, in a container where another extension is
\* active.
C35_Witness ==
    /\ ret = Raised("install", "extension-not-allowlisted")
    /\ \E extension_id \in Identifiers :
          /\ policy_of("alpha").allowlist # {}
          /\ extension_id \notin policy_of("alpha").allowlist
          /\ extension_id \notin policy_of("alpha").denylist
          /\ ~is_allowed("alpha", extension_id)
          /\ ~contains(installed_for("alpha"), extension_id)
          /\ installed_for("alpha") # <<>>

(***************************************************************************)
(* Dashboard containers: the recorded template against the badge.          *)
(***************************************************************************)

\* C36 as stated: after any sequence of ensure_container calls, also
\* repeated ones for the same name with a different template, the template
\* recorded for a container equals the name of the policy in its badge; and
\* the container's uniformity profile is the one of that policy's preset
\* after every ensure_container, and changes afterwards only by
\* set_uniformity or another ensure_container.
C36_TemplateMatchesBadge ==
    /\ [](\A name \in DOMAIN container_templates :
            /\ name \in DOMAIN badges
            /\ container_templates[name] = badges[name].policy.name)
    /\ [][ \A name \in Containers :
             /\ \A template \in EnsureTemplates, locale \in EnsureLocales :
                  ( /\ ensure_container(name, template, locale)
                    /\ name \in DOMAIN badges' )
                  => profile_for(name)'.name = badges'[name].policy.uniformity_preset
             /\ ( /\ name \in DOMAIN container_profiles
                  /\ name \in DOMAIN container_profiles'
                  /\ container_profiles'[name] # container_profiles[name] )
                => ret'.op \in {"ensure_container", "set_uniformity"}
      ]_vars

(***************************************************************************)
(* Permission expiry and the revocation entries of the exposure log.       *)
(***************************************************************************)

\* C37: expiry is pull-based. use_permission on an active grant whose idle
\* time at the moment of use exceeds idle_timeout returns true, keeps the
\* grant active and sets last_used to that moment; revoke_unused called at
\* the instant a grant was last used leaves it active; and no call of
\* use_permission turns any active grant inactive.
C37_ExpiryIsPullBased ==
    [][ \A pair \in Pairs :
          LET origin == pair[1]
              permission == pair[2]
          IN  is_active(grants, origin, permission)
              => /\ \A when \in Times :
                      ( /\ use_permission(origin, permission, when)
                        /\ when - the_grant(grants, origin, permission).last_used
                             > IdleTimeout )
                      => /\ ret' = [op |-> "use_permission", val |-> TRUE]
                         /\ is_active(grants', origin, permission)
                         /\ the_grant(grants', origin, permission).last_used = when
                 /\ \A now \in Times :
                      ( /\ revoke_unused(now)
                        /\ the_grant(grants, origin, permission).last_used = now )
                      => /\ is_active(grants', origin, permission)
                         /\ the_grant(grants', origin, permission).last_used = now
                 /\ ret'.op = "use_permission"
                    => is_active(grants', origin, permission)
      ]_vars

\* The only grant ever requested was used at time 0 and again at time
\* MaxTime, more than idle_timeout after its last use, and the revoke_unused
\* call that followed left it active with last_used at MaxTime.
C37_Witness ==
    /\ ret = Returned("revoke_unused")
    /\ Len(audit_events) = 1
    /\ MaxTime - 0 > IdleTimeout
    /\ \E pair \in Pairs :
          /\ is_active(grants, pair[1], pair[2])
          /\ the_grant(grants, pair[1], pair[2]).last_used = MaxTime
          /\ exposure_log =
                <<[origin |-> pair[1], permission |-> pair[2], timestamp |-> 0],
                  [origin |-> pair[1], permission |-> pair[2],
                   timestamp |-> MaxTime]>>

\* C38 as stated: every entry with a reason ("auto-revoked" or "tab-closed")
\* that a call appends to the exposure log is for a grant that was active
\* before the call and is inactive after it.
C38_RevocationLoggedOncePerGrant ==
    [][ \A k \in (Len(exposure_log) + 1)..Len(exposure_log') :
          "reason" \in DOMAIN exposure_log'[k]
          => /\ exposure_log'[k].reason \in {"auto-revoked", "tab-closed"}
             /\ is_active(grants, exposure_log'[k].origin,
                          exposure_log'[k].permission)
             /\ ~is_active(grants', exposure_log'[k].origin,
                           exposure_log'[k].permission)
      ]_vars

(***************************************************************************)
(* Dashboard navigation: the device class as a function of the origin.     *)
(***************************************************************************)

\* C39: within one process, where hash() of an origin does not change, the
\* device class recorded for a container is the class of the bucket of
\* abs(hash(origin)) % 10000 for the container's origin, whichever container
\* it is and whatever was navigated to or randomized before; so containers
\* at the same origin have identical classes and a cached origin's class
\* stays what it was the first time. record_navigation records scheme://host
\* as the origin, and about:blank for a url without scheme or without host.
C39_DeviceClassDependsOnOriginOnly ==
    /\ [](\A container \in DOMAIN last_device_class :
            /\ container \in DOMAIN container_origins
            /\ last_device_class[container]
                 = device_class((abs(hash_value[container_origins[container]])
                                   % 10000) \div stability_window)
            /\ \A other \in DOMAIN last_device_class :
                  container_origins[other] = container_origins[container]
                  => last_device_class[other] = last_device_class[container])
    /\ [][ /\ hash_value' = hash_value
           /\ \A container \in Containers, url \in Urls :
                 record_navigation(container, url)
                 => /\ container_origins'[container]
                         = IF url.scheme = "" \/ url.netloc = ""
                           THEN "about:blank"
                           ELSE url.scheme \o "://" \o url.netloc
                    /\ container \in DOMAIN last_device_class'
                    /\ \A bucket \in DOMAIN randomized :
                          /\ bucket \in DOMAIN randomized'
                          /\ randomized'[bucket] = randomized[bucket]
      ]_vars

\* Both containers are at https://a.example with the same device class,
\* after a navigation or randomization that cached another bucket with a
\* different class, and about:blank hashes to that other bucket.
C39_Witness ==
    /\ ret = Returned("record_navigation")
    /\ DOMAIN last_device_class = Containers
    /\ \A container \in Containers :
          container_origins[container] = "https://a.example"
    /\ last_device_class["alpha"] = last_device_class["beta"]
    /\ hash_value["about:blank"] # hash_value["https://a.example"]
    /\ \E bucket \in DOMAIN randomized :
          randomized[bucket] # last_device_class["alpha"]
====
